---- MODULE Spec2Model ----
(***************************************************************************)
(* A model of tabitomo's stream-processing cores:                          *)
(*                                                                         *)
(*  - the <think>-tag filter that explainWord, quickQA                     *)
(*    (src/src/utils/translation/explanation.ts) and                       *)
(*    streamTranslateImageWithVLM (src/src/utils/imageOcr.ts) each run     *)
(*    over the chunks of a text stream, alone and with the loop that       *)
(*    consumes them under the abort signal of the request;                 *)
(*  - the VoiceActivityDetector of                                         *)
(*    src/src/utils/audio/realtimeTranscription.ts, driven by its two      *)
(*    interval timers, its MediaRecorder and stop();                       *)
(*  - the RealtimeTranscriptionService of the same file, with its          *)
(*    asynchronous start(), its stop() and its transcription calls;        *)
(*  - realtime recording in src/src/components/TranslationTool.tsx:        *)
(*    startRecording, stopRecording and the transcript debounce;           *)
(*  - the text pane of the same component: handleTextChange,               *)
(*    handleTranslate with its translation cache, handleWordExplanation,   *)
(*    their abort controllers and the button that toggles the two modes;   *)
(*  - the overlay of processImage in the same component: the loop that     *)
(*    lays the translated text of every OCR region out on the canvas.      *)
(*                                                                         *)
(* Text is modelled as TLA+ strings, which TLC treats as sequences of      *)
(* characters (Len, SubSeq, \o).  Time is in milliseconds, lengths on the  *)
(* canvas are in millionths of a pixel.                                    *)
(***************************************************************************)
EXTENDS Integers, Sequences, FiniteSets, TLC

VARIABLES
    \* ---- stream tag filter ----
    fn,              \* which generator runs: explainWord, quickQA or the VLM one
    enableThinking,  \* settings.vlm.enableThinking (the spec's showMarkedContent)
    stream,          \* the chunks the provider's text stream will deliver
    chunks,          \* the chunks delivered so far, in order
    buffer,          \* the generator's local `buffer`
    inThinkTag,      \* the generator's local `inThinkTag`
    out,             \* the chunks yielded so far, in order
    fpc,             \* "streaming" until the for-await loop ends, then "done"
    \* ---- a streaming request under cancellation ----
    signalAborted,   \* abortController.signal.aborted of the request
    streamedText,    \* the consuming loop's local `streamedText`
    late,            \* the chunks the generator yielded after the signal was raised
    \* ---- voice activity detector ----
    cfg,             \* the VADConfig the detector was constructed with
    now,             \* Date.now(), in ms since the detector was constructed
    vpc,             \* "constructed", "running" (after start) or "stopped"
    vad,             \* the detector's fields, its recorder and timers, and
                     \* the log of its onVoiceStart/onVoiceEnd calls
    signal,          \* the energy samples the analyser will report, tick by tick
    ticks,           \* the number of energy ticks so far
    delivered,       \* the non-empty chunks the recorder has delivered so far
    \* ---- realtime transcription service ----
    provider,        \* settings.speechRecognition.provider
    modelDownloaded, \* localWhisperService.isModelDownloaded(modelSize)
    service,         \* the fields of the RealtimeTranscriptionService instance
    calls,           \* the start()/stop() calls made on it so far, in order
    starts,          \* the start() calls: where each one is in its body
    streams,         \* the MediaStreams getUserMedia has handed out
    detectors,       \* the VoiceActivityDetectors the service has constructed
    jobs,            \* the transcribeAudioSegment calls, in dispatch order
    transcripts,     \* the onTranscript calls so far, in order
    errors,          \* the onError calls so far, in order
    \* ---- realtime recording in TranslationTool ----
    sourceLang,      \* the sourceLang state
    sourceText,      \* the sourceText state
    isRecording,     \* the isRecording state
    isTranslating,   \* the isTranslating state
    error,           \* the error state ("null" for null)
    realtimeTranscriptionRef,     \* the session the ref points to, 0 for null
    realtimeTranslationTimerRef,  \* the timer id the ref holds, 0 for null
    sessions,        \* the services startRecording has constructed
    timers,          \* the debounce timers that are pending
    timerIds,        \* the number of timer ids setTimeout has handed out
    segments,        \* the number of segments dispatched for transcription
    clock,           \* the time, in ms
    clicks,          \* the presses of the record ("start") and stop buttons
    received,        \* the final transcripts since the latest startRecording
    finals,          \* every final transcript, with its time
    translations,    \* the handleTranslate calls of the timer and of stopRecording
    \* ---- the text pane of TranslationTool ----
    targetText,      \* the targetText state
    translationAbortControllerRef,  \* the request whose controller the ref holds, 0 for null
    translationCache,  \* translationCacheRef.current: entries with key, result, timestamp
    requests,        \* the requests handleTranslate and handleWordExplanation started
    handled,         \* every handleTranslate call, with the path it took
    writes,          \* the writes of targetText and error by completing translations
    textMode,        \* the textMode state: "translation" or "explanation"
    isThinking,      \* the isThinking state
    explanationAbortControllerRef,  \* as translationAbortControllerRef, for explanations
    debounceTimerRef,  \* the pending timer of handleTextChange
    generalAIConfigured,  \* isGeneralAIConfigured()
    targetLang,      \* the targetLang state
    edits,           \* the number of handleTextChange calls
    toggles,         \* the number of clicks on the mode toggle
    inputMethod,     \* the inputMethod state: "text", "image" or "qa"
    staleRequests,   \* the requests started before the latest handleInputMethodChange
    \* ---- the overlay of processImage ----
    metrics,         \* how the canvas measures text: "scaled" or "hinted"
    ocrTexts,        \* the OCR regions, each with the lines of its translation
    index,           \* the region the forEach loop is at
    occupiedRects,   \* the rectangles pushed so far
    drawn,           \* the backgrounds filled so far, with their regions
    placed           \* what the loop body did for each region it has run on

filterVars == <<fn, enableThinking, stream, chunks, buffer, inThinkTag, out, fpc>>

vadVars == <<cfg, now, vpc, vad, signal, ticks, delivered>>

serviceVars ==
    <<provider, modelDownloaded, service, calls, starts, streams, detectors, jobs,
      transcripts, errors>>

recordingVars ==
    <<sourceLang, sourceText, isRecording, isTranslating, error, realtimeTranscriptionRef,
      realtimeTranslationTimerRef, sessions, timers, timerIds, segments, clock, clicks,
      received, finals, translations>>

translateVars ==
    <<targetText, translationAbortControllerRef, translationCache, requests, handled, writes,
      textMode, isThinking, explanationAbortControllerRef, debounceTimerRef,
      generalAIConfigured, targetLang, edits, toggles, inputMethod, staleRequests>>

cancelVars == <<signalAborted, streamedText, late>>

layoutVars == <<metrics, ocrTexts, index, occupiedRects, drawn, placed>>

vars ==
    <<filterVars, cancelVars, vadVars, serviceVars, recordingVars, translateVars, layoutVars>>

\* what the actions of one component leave alone
notFilter == <<cancelVars, vadVars, serviceVars, recordingVars, translateVars, layoutVars>>

notVad == <<filterVars, cancelVars, serviceVars, recordingVars, translateVars, layoutVars>>

notService == <<filterVars, cancelVars, vadVars, recordingVars, translateVars, layoutVars>>

notRecording == <<filterVars, cancelVars, vadVars, serviceVars, translateVars, layoutVars>>

notTool == <<filterVars, cancelVars, vadVars, serviceVars, layoutVars>>

notLayout ==
    <<filterVars, cancelVars, vadVars, serviceVars, recordingVars, translateVars>>

\* the recording state that handleTranslate does not touch
recordingRest ==
    <<sourceLang, sourceText, isRecording, realtimeTranscriptionRef,
      realtimeTranslationTimerRef, sessions, timers, timerIds, segments, clicks, received,
      finals, translations>>

\* and the part of it that handleTextChange does not touch either
recordingOnly ==
    <<sourceLang, isRecording, realtimeTranscriptionRef, realtimeTranslationTimerRef,
      sessions, timers, timerIds, segments, clicks, received, finals, translations>>

\* what the pane is given, and what only handleInputMethodChange sets
paneInputs == <<generalAIConfigured, targetLang, inputMethod, staleRequests>>

\* what the completion of a request leaves alone in the pane
paneRest == <<debounceTimerRef, edits, toggles, paneInputs>>

\* the state of the pane that the loop over a generator does not touch
translateRest ==
    <<translationAbortControllerRef, translationCache, requests, handled, writes, textMode,
      explanationAbortControllerRef, paneRest>>

-----------------------------------------------------------------------------
(* Bounds of the filter model *)

\* a text is a concatenation of at most MaxPieces pieces
MaxPieces == 2
\* and is delivered in at most MaxChunks chunks (the scenario's stream has 4)
MaxChunks == 3

(* Bounds of the detector model *)

\* a signal is MaxTicks energy samples long (the scenario signals are longer)
MaxTicks == 10
\* its level changes at most MaxFlips times from one sample to the next
MaxFlips == 2
\* a scenario signal starts with at most MaxLead samples of silence
MaxLead == 1

(* Bounds of the service model *)

\* start() is called at most MaxStarts times on the instance
MaxStarts == 2
\* and stop() at most MaxStops times
MaxStops == 2
\* the detectors open at most MaxSegments voice segments in all
MaxSegments == 2

(* Bounds of the recording model *)

\* the record button starts at most MaxSessions recordings
MaxSessions == 1
\* whose segments number at most MaxFinals in all
MaxFinals == 2
\* the clock runs for at most MaxHalfPeriods halves of a debounce period
MaxHalfPeriods == 3

(* Bounds of the translation model *)

\* handleTranslate is called at most MaxCalls times
MaxCalls == 3
\* the clock runs for at most MaxCacheAges halves of the cache duration
MaxCacheAges == 2

(* Bounds of the text pane model *)

\* the source text is edited at most MaxEdits times
MaxEdits == 2
\* the mode toggle is clicked at most MaxToggles times
MaxToggles == 2
\* an explanation streams at most MaxYields chunks of text
MaxYields == 1

(* Bounds of the overlay model *)
\* an image has at most MaxRegions OCR regions
MaxRegions == 3

-----------------------------------------------------------------------------
(* JavaScript string primitives, 0-based as in the source *)

\* s.substring(a, b)
Substring(s, a, b) == SubSeq(s, a + 1, b)

\* s.substring(a)
SubstringFrom(s, a) == SubSeq(s, a + 1, Len(s))

\* s.indexOf(pat): the first index at which pat occurs, or -1
IndexOf(s, pat) ==
    LET hits == {i \in 0..(Len(s) - Len(pat)) : Substring(s, i, i + Len(pat)) = pat}
    IN  IF hits = {} THEN -1 ELSE CHOOSE i \in hits : \A j \in hits : i <= j

\* s.lastIndexOf(pat): the last index at which pat occurs, or -1
LastIndexOf(s, pat) ==
    LET hits == {i \in 0..(Len(s) - Len(pat)) : Substring(s, i, i + Len(pat)) = pat}
    IN  IF hits = {} THEN -1 ELSE CHOOSE i \in hits : \A j \in hits : i >= j

\* s.replace(/tok/g, ''): every non-overlapping occurrence removed, left to right
RECURSIVE RemoveAll(_, _)
RemoveAll(s, tok) ==
    LET i == IndexOf(s, tok)
    IN  IF i = -1 THEN s
        ELSE Substring(s, 0, i) \o RemoveAll(SubstringFrom(s, i + Len(tok)), tok)

Contains(s, pat) == IndexOf(s, pat) # -1

\* the concatenation of a sequence of strings
RECURSIVE Join(_)
Join(ss) == IF Len(ss) = 0 THEN "" ELSE Head(ss) \o Join(Tail(ss))

-----------------------------------------------------------------------------
(* The filter *)

THINK_OPEN == "<think>"
THINK_CLOSE == "</think>"
THINKING_START == "___THINKING_START___"
THINKING_END == "___THINKING_END___"
BEGIN_OF_BOX == "<|begin_of_box|>"
END_OF_BOX == "<|end_of_box|>"

Fns == {"explainWord", "quickQA", "streamTranslateImageWithVLM"}

\* explainWord and quickQA yield sentinels; the VLM generator yields nothing
EmitsSentinels(f) == f \in {"explainWord", "quickQA"}

\* "Filter out GLM box tokens"
FilterBoxTokens(chunk) == RemoveAll(RemoveAll(chunk, BEGIN_OF_BOX), END_OF_BOX)

\* Outside, no <think> in the buffer: the test that decides "yield everything"
NoPotentialTagStart(lastTagStart) == lastTagStart = -1 \/ lastTagStart = 0

\* Outside, <think> found: what is yielded in place of the tag
OpenTagYield(f, enable) ==
    IF ~enable
    THEN IF EmitsSentinels(f) THEN <<THINKING_START>> ELSE <<>>
    ELSE <<THINK_OPEN>>

\* InsideYield yielding the buffer whatever the setting: a faulty variant
\* that shows marked content with thinking display off
InsideYieldShown(buf, enable) == <<buf>>

\* Inside, no </think> yet: what is yielded of the buffer
InsideYield(buf, enable) == IF enable THEN <<buf>> ELSE <<>>

\* CloseTagYield cutting the buffer at the closing tag instead of after it:
\* a faulty variant, which the round trip must not survive
CloseTagYieldDroppingTag(f, enable, buf, thinkEndIndex) ==
    IF enable
    THEN <<Substring(buf, 0, thinkEndIndex)>>
    ELSE IF EmitsSentinels(f) THEN <<THINKING_END>> ELSE <<>>

\* CloseTagYield as the VLM generator has it, without the end sentinel: a
\* faulty variant for explainWord and quickQA
CloseTagYieldNoSentinel(f, enable, buf, thinkEndIndex) ==
    IF enable THEN <<Substring(buf, 0, thinkEndIndex + 8)>> ELSE <<>>

\* Inside, </think> found: what is yielded
CloseTagYield(f, enable, buf, thinkEndIndex) ==
    IF enable
    THEN <<Substring(buf, 0, thinkEndIndex + 8)>>
    ELSE IF EmitsSentinels(f) THEN <<THINKING_END>> ELSE <<>>

\* The `while (true)` loop run on the buffer after a chunk was appended:
\* the buffer and state it leaves, and the chunks it yields in order.
RECURSIVE ProcessBuffer(_, _, _, _)
ProcessBuffer(f, enable, buf, inThink) ==
    IF ~inThink
    THEN LET thinkStartIndex == IndexOf(buf, THINK_OPEN) IN
         IF thinkStartIndex = -1
         THEN LET lastTagStart == LastIndexOf(buf, "<") IN
              IF NoPotentialTagStart(lastTagStart)
              THEN [buffer |-> "", inThinkTag |-> FALSE,
                    yields |-> IF Len(buf) > 0 THEN <<buf>> ELSE <<>>]
              ELSE [buffer |-> SubstringFrom(buf, lastTagStart), inThinkTag |-> FALSE,
                    yields |-> IF Len(Substring(buf, 0, lastTagStart)) > 0
                               THEN <<Substring(buf, 0, lastTagStart)>> ELSE <<>>]
         ELSE LET before == IF thinkStartIndex > 0
                            THEN <<Substring(buf, 0, thinkStartIndex)>> ELSE <<>>
                  after == SubstringFrom(SubstringFrom(buf, thinkStartIndex), 7)
                  r == ProcessBuffer(f, enable, after, TRUE)
              IN  [r EXCEPT !.yields = before \o OpenTagYield(f, enable) \o r.yields]
    ELSE LET thinkEndIndex == IndexOf(buf, THINK_CLOSE) IN
         IF thinkEndIndex = -1
         THEN [buffer |-> "", inThinkTag |-> TRUE, yields |-> InsideYield(buf, enable)]
         ELSE LET r == ProcessBuffer(f, enable, SubstringFrom(buf, thinkEndIndex + 8), FALSE)
              IN  [r EXCEPT !.yields = CloseTagYield(f, enable, buf, thinkEndIndex) \o r.yields]

\* "Handle any remaining buffer", after the stream has ended
RemainingYield(buf, inThink, enable) ==
    IF Len(buf) > 0 /\ (~inThink \/ enable) THEN <<buf>> ELSE <<>>

-----------------------------------------------------------------------------
(* The inputs of the filter *)

Pieces == {"a", "<", THINK_OPEN, THINK_CLOSE}

\* a text with marked content and text after it, a text with two marker
\* pairs, and a text carrying a box-boundary token
ExtraTexts == {"<think>s</think>a",
               "<think>a</think><think>b</think>",
               "a<|end_of_box|>b"}

Texts == {Join(ps) : ps \in UNION {[1..n -> Pieces] : n \in 1..MaxPieces}} \cup ExtraTexts

\* the scenario of the specification
ScenarioChunks == <<"Hel", "lo <th", "ink>sec", "ret</think> world">>

\* every way of delivering the text s in at most k non-empty chunks
RECURSIVE Splits(_, _)
Splits(s, k) ==
    IF s = "" THEN {<<>>}
    ELSE IF k = 0 THEN {}
    ELSE UNION {{<<Substring(s, 0, n)>> \o t : t \in Splits(SubstringFrom(s, n), k - 1)} :
                n \in 1..Len(s)}

Streams ==
    UNION {Splits(s, MaxChunks) : s \in Texts}
        \cup Splits(Join(ScenarioChunks), MaxChunks) \cup {ScenarioChunks}

\* the whole text of the stream
Input == Join(stream)

FilterInit ==
    /\ fn \in Fns
    /\ enableThinking \in BOOLEAN
    /\ stream \in Streams
    /\ chunks = <<>>
    /\ buffer = ""
    /\ inThinkTag = FALSE
    /\ out = <<>>
    /\ fpc = "streaming"

\* One iteration of `for await (const chunk of result.textStream)` on the
\* next chunk of the stream.
Chunk ==
    /\ fpc = "streaming"
    /\ Len(chunks) < Len(stream)
    /\ LET chunk == stream[Len(chunks) + 1]
           filteredChunk == FilterBoxTokens(chunk)
           r == ProcessBuffer(fn, enableThinking, buffer \o filteredChunk, inThinkTag)
       IN  /\ chunks' = Append(chunks, chunk)
           /\ buffer' = r.buffer
           /\ inThinkTag' = r.inThinkTag
           /\ out' = out \o r.yields
    /\ UNCHANGED <<fn, enableThinking, stream, fpc, notFilter>>

\* The stream ends: the loop exits and the remaining buffer is handled.
StreamEnd ==
    /\ fpc = "streaming"
    /\ Len(chunks) = Len(stream)
    /\ out' = out \o RemainingYield(buffer, inThinkTag, enableThinking)
    /\ fpc' = "done"
    /\ UNCHANGED <<fn, enableThinking, stream, chunks, buffer, inThinkTag, notFilter>>

FilterNext ==
    \/ Chunk
    \/ StreamEnd

-----------------------------------------------------------------------------
(* A streaming request under cancellation: one of the generators above and   *)
(* the `for await` loop that consumes it in handleWordExplanation, handleQA  *)
(* or processImage, with the abort signal of the request.  The handlers'     *)
(* finally blocks are in the text pane below.                                *)

\* explainWord and quickQA hand their abortSignal to streamText;
\* streamTranslateImageWithVLM has no such parameter and ignores the signal
\* its caller passes
PassesSignal(f) == f \in {"explainWord", "quickQA"}

\* the streams a request under cancellation is run on
CancelStreams == UNION {Splits(s, MaxPieces) : s \in Texts} \cup {ScenarioChunks}

\* the yields the loop body does not `continue` on
Appended(f, ys) ==
    SelectSeq(ys, LAMBDA y : ~(EmitsSentinels(f) /\ y \in {THINKING_START, THINKING_END}))

\* the loop body on the chunks that are no sentinels: streamedText += chunk
Consume(f, text, ys) == Join(<<text>> \o Appended(f, ys))

\* isThinking after the loop body has run on the yields ys
Thinking(f, was, ys) ==
    LET ss == SelectSeq(ys, LAMBDA y : y \in {THINKING_START, THINKING_END}) IN
    IF ~EmitsSentinels(f) \/ ss = <<>> THEN was ELSE ss[Len(ss)] = THINKING_START

\* a chunk the generator yields after the signal was raised, as the log
\* keeps it; `at` is "chunk" for a yield of the loop, "flush" for the
\* remaining buffer
Late(y, at) == [chunk |-> y, at |-> at]

CancelInit ==
    /\ fn \in Fns
    /\ enableThinking \in BOOLEAN
    /\ stream \in CancelStreams
    /\ chunks = <<>>
    /\ buffer = ""
    /\ inThinkTag = FALSE
    /\ out = <<>>
    /\ fpc = "streaming"
    /\ signalAborted = FALSE
    /\ streamedText = ""
    /\ late = <<>>

\* the signal of the request is raised: a newer request supersedes it or the
\* mode toggle cancels it
RaiseAbort ==
    /\ fpc = "streaming"
    /\ ~signalAborted
    /\ signalAborted' = TRUE
    /\ UNCHANGED <<filterVars, streamedText, late, targetText, isThinking, error,
                   isTranslating, clock, recordingRest, translateRest, vadVars, serviceVars, layoutVars>>

\* the text stream delivers its next chunk to the generator, whose yields go
\* to the loop one by one; a stream that was handed the signal delivers
\* nothing once it is raised.  With the signal raised the loop breaks on the
\* first yield, which closes the generator where it stands.
NextChunk ==
    /\ fpc = "streaming"
    /\ Len(chunks) < Len(stream)
    /\ ~(signalAborted /\ PassesSignal(fn))
    /\ LET chunk == stream[Len(chunks) + 1]
           filteredChunk == FilterBoxTokens(chunk)
           r == ProcessBuffer(fn, enableThinking, buffer \o filteredChunk, inThinkTag)
       IN  /\ chunks' = Append(chunks, chunk)
           /\ IF signalAborted /\ r.yields # <<>>
              THEN /\ out' = Append(out, r.yields[1])
                   /\ late' = Append(late, Late(r.yields[1], "chunk"))
                   /\ fpc' = "returned"
                   /\ UNCHANGED <<buffer, inThinkTag, streamedText, targetText, isThinking>>
              ELSE /\ out' = out \o r.yields
                   /\ buffer' = r.buffer
                   /\ inThinkTag' = r.inThinkTag
                   /\ streamedText' = Consume(fn, streamedText, r.yields)
                   /\ targetText' = IF Appended(fn, r.yields) # <<>>
                                    THEN Consume(fn, streamedText, r.yields)
                                    ELSE targetText
                   /\ isThinking' = Thinking(fn, isThinking, r.yields)
                   /\ UNCHANGED <<late, fpc>>
    /\ UNCHANGED <<fn, enableThinking, stream, signalAborted, error, isTranslating, clock,
                   recordingRest, translateRest, vadVars, serviceVars, layoutVars>>

\* the text stream ends, and the generator handles its remaining buffer; a
\* stream whose signal was raised may end in this way instead of throwing
StreamCloses ==
    /\ fpc = "streaming"
    /\ Len(chunks) = Len(stream) \/ (signalAborted /\ PassesSignal(fn))
    /\ fpc' = "done"
    /\ LET ys == RemainingYield(buffer, inThinkTag, enableThinking) IN
       /\ out' = out \o ys
       /\ IF signalAborted
          THEN /\ late' = late \o [i \in 1..Len(ys) |-> Late(ys[i], "flush")]
               /\ UNCHANGED <<streamedText, targetText>>
          ELSE /\ streamedText' = Consume(fn, streamedText, ys)
               /\ targetText' = IF Appended(fn, ys) # <<>>
                                THEN Consume(fn, streamedText, ys)
                                ELSE targetText
               /\ UNCHANGED late
    /\ UNCHANGED <<fn, enableThinking, stream, chunks, buffer, inThinkTag, signalAborted,
                   isThinking, error, isTranslating, clock, recordingRest, translateRest,
                   vadVars, serviceVars, layoutVars>>

\* the text stream throws, because its signal was raised or the network
\* failed: the generator's catch block rethrows a new Error, and the catch
\* block of the loop's handler, which takes it for no AbortError, shows it
StreamThrows ==
    /\ fpc = "streaming"
    /\ fpc' = "failed"
    /\ error' = "failed"
    /\ targetText' = IF EmitsSentinels(fn) THEN "" ELSE targetText
    /\ UNCHANGED <<fn, enableThinking, stream, chunks, buffer, inThinkTag, out,
                   signalAborted, streamedText, late, isThinking, isTranslating, clock,
                   recordingRest, translateRest, vadVars, serviceVars, layoutVars>>

CancelNext ==
    \/ RaiseAbort
    \/ NextChunk
    \/ StreamCloses
    \/ StreamThrows

-----------------------------------------------------------------------------
(* The voice activity detector *)

\* setInterval(() => this.checkVoiceDuration(), 100)
CheckPeriod == 100
\* mediaRecorder.start(100): a dataavailable event every 100 ms
Timeslice == 100
\* setTimeout(..., 50) before the recorder is restarted
RestartDelay == 50

\* { ...DEFAULT_CONFIG, ...config } for the configurations a caller passes:
\* the defaults with maxVoiceDuration lowered to 1000 ms, and a quick one
\* whose silenceDuration is below its minVoiceDuration
ScenarioConfig ==
    [energyThreshold |-> 30, energyIntegrationTime |-> 100,
     minVoiceDuration |-> 250, maxVoiceDuration |-> 1000, silenceDuration |-> 800]

QuickConfig ==
    [energyThreshold |-> 30, energyIntegrationTime |-> 100,
     minVoiceDuration |-> 250, maxVoiceDuration |-> 500, silenceDuration |-> 100]

Configs == {ScenarioConfig, QuickConfig}

\* DEFAULT_CONFIG, what a caller that passes no configuration gets
DEFAULT_CONFIG ==
    [energyThreshold |-> 30, energyIntegrationTime |-> 100,
     minVoiceDuration |-> 250, maxVoiceDuration |-> 10000, silenceDuration |-> 800]

\* the energy samples a tick may read: below, at and above the threshold
EnergyLevels == {5, 30, 45}

\* the signals of n samples that follow a sample `prev` and change level at
\* most k times
RECURSIVE SignalsFrom(_, _, _)
SignalsFrom(n, k, prev) ==
    IF n = 0 THEN {<<>>}
    ELSE UNION {{<<e>> \o t : t \in SignalsFrom(n - 1, IF e = prev THEN k ELSE k - 1, e)} :
                e \in {x \in EnergyLevels : x = prev \/ k > 0}}

\* a continuous voice run of 25 samples (2500 ms at a 100 ms tick) after
\* `lead` samples of silence, followed by silence
VoiceRun(lead) ==
    [i \in 1..(lead + 34) |-> IF i > lead /\ i <= lead + 25 THEN 45 ELSE 5]

Signals ==
    UNION {{<<e>> \o t : t \in SignalsFrom(MaxTicks - 1, MaxFlips, e)} : e \in EnergyLevels}
        \cup {VoiceRun(lead) : lead \in 0..MaxLead}

\* a short utterance: two samples of silence, three of voice, eight of silence
ShortUtterance == <<5, 5, 40, 45, 50, 5, 5, 5, 5, 5, 5, 5, 5>>

\* a false start: one sample of voice, one of silence, then three samples
\* of voice and silence after them
FalseStart == <<45, 5, 45, 45, 45, 5, 5>>

\* a recorded chunk is the span of time whose audio it carries
AudioChunk(from, to) == [from |-> from, to |-> to]

\* the fields of a VoiceActivityDetector after its constructor
NewVad ==
    [isVoiceActive |-> FALSE, voiceStartTime |-> 0, lastVoiceTime |-> 0,
     audioChunks |-> <<>>,
     monitoringInterval |-> -1,   \* when the energy interval fires next; -1: null
     checkInterval |-> -1,        \* when the duration interval fires next; -1: null
     recorder |-> "null",         \* mediaRecorder: "null", or its state
     recFrom |-> 0,               \* since when the recorder gathers undelivered audio
     recNext |-> -1,              \* when the recorder's next timeslice ends
     recFlush |-> <<>>,           \* the dataavailable events queued by recorder.stop()
     restartTimer |-> -1,         \* when endVoice's setTimeout fires; -1: none
     voiceStarts |-> <<>>,        \* the times of the onVoiceStart calls
     voiceEnds |-> <<>>]          \* the onVoiceEnd calls: segment span, blob, cause

\* MediaRecorder.stop(): the recorder becomes inactive and a final dataavailable
\* event with the audio gathered since the last one is queued (empty audio has
\* size 0, which ondataavailable ignores)
RecorderStop(v, t) ==
    [v EXCEPT !.recorder = "inactive",
              !.recNext = -1,
              !.recFlush = IF t > v.recFrom THEN Append(@, AudioChunk(v.recFrom, t)) ELSE @]

\* MediaRecorder.start(100)
RecorderStart(v, t) ==
    [v EXCEPT !.recorder = "recording", !.recFrom = t, !.recNext = t + Timeslice]

\* const isVoice = energy > this.config.energyThreshold
IsVoice(c, energy) == energy > c.energyThreshold

\* startVoice() without `this.isVoiceActive = true`: a faulty variant that
\* opens a segment on every tick above the threshold
StartVoiceUnmarked(v, t) ==
    [v EXCEPT !.voiceStartTime = t, !.audioChunks = <<>>, !.voiceStarts = Append(@, t)]

\* startVoice()
StartVoice(v, t) ==
    [v EXCEPT !.isVoiceActive = TRUE,
              !.voiceStartTime = t,
              !.audioChunks = <<>>,
              !.voiceStarts = Append(@, t)]

\* endVoice's restart of the recorder: stop now, start again 50 ms later
RestartRecorder(v, t) ==
    IF v.recorder = "recording"
    THEN [RecorderStop(v, t) EXCEPT !.restartTimer = t + RestartDelay]
    ELSE v

\* endVoice(); `via` records which caller closed the segment
EndVoice(v, t, via) ==
    IF ~v.isVoiceActive THEN v
    ELSE LET closed == [v EXCEPT !.isVoiceActive = FALSE, !.audioChunks = <<>>] IN
         IF Len(v.audioChunks) = 0 THEN closed
         ELSE [RestartRecorder(closed, t) EXCEPT
                  !.voiceEnds = Append(@, [start |-> v.voiceStartTime, end |-> t,
                                           blob |-> v.audioChunks, via |-> via])]

\* the "Too short, discard" branch passing the segment on as endVoice does:
\* a faulty variant that notifies of a segment below minVoiceDuration
DiscardVoiceNotifying(v, t) == EndVoice(v, t, "silence")

\* processEnergy's "Too short, discard" branch
DiscardVoice(v, t) ==
    LET cleared == [v EXCEPT !.isVoiceActive = FALSE, !.audioChunks = <<>>] IN
    IF cleared.recorder = "recording"
    THEN RecorderStart(RecorderStop(cleared, t), t)
    ELSE cleared

\* processEnergy's silence test with > for >=: a faulty variant that closes
\* a segment one tick late
SilenceExceeded(c, silence) == silence > c.silenceDuration

\* processEnergy's silence test: silenceDuration >= this.config.silenceDuration
SilenceReached(c, silence) == silence >= c.silenceDuration

\* processEnergy(energy)
ProcessEnergy(c, v, energy, t) ==
    IF IsVoice(c, energy)
    THEN LET heard == [v EXCEPT !.lastVoiceTime = t] IN
         IF ~heard.isVoiceActive THEN StartVoice(heard, t) ELSE heard
    ELSE IF v.isVoiceActive
         THEN IF SilenceReached(c, t - v.lastVoiceTime)
              THEN IF t - v.voiceStartTime >= c.minVoiceDuration
                   THEN EndVoice(v, t, "silence")
                   ELSE DiscardVoice(v, t)
              ELSE v
         ELSE v

\* checkVoiceDuration's test with > for >=: a faulty variant that splits one
\* check late
MaxDurationExceeded(c, voiceDuration) == voiceDuration > c.maxVoiceDuration

\* checkVoiceDuration's test: voiceDuration >= this.config.maxVoiceDuration
MaxDurationReached(c, voiceDuration) == voiceDuration >= c.maxVoiceDuration

\* checkVoiceDuration()
CheckVoiceDuration(c, v, t) ==
    IF ~v.isVoiceActive THEN v
    ELSE IF MaxDurationReached(c, t - v.voiceStartTime)
         THEN EndVoice(v, t, "split")
         ELSE v

\* stopMonitoring()
StopMonitoring(v) == [v EXCEPT !.monitoringInterval = -1, !.checkInterval = -1]

\* stop()
StopVad(v, t) ==
    LET flushed == IF StopMonitoring(v).isVoiceActive
                   THEN EndVoice(StopMonitoring(v), t, "stop")
                   ELSE StopMonitoring(v)
        halted == IF flushed.recorder \notin {"null", "inactive"}
                  THEN RecorderStop(flushed, t)
                  ELSE flushed
    IN  [halted EXCEPT !.audioChunks = <<>>, !.isVoiceActive = FALSE, !.recorder = "null"]

\* a set of times' minimum
Min(S) == CHOOSE x \in S : \A y \in S : x <= y

\* the times at which a timer or the recorder is due
Due(v) ==
    {v.monitoringInterval, v.checkInterval, v.restartTimer,
     IF v.recorder = "recording" THEN v.recNext ELSE -1} \ {-1}

VadInit ==
    /\ \/ cfg \in Configs /\ signal \in Signals
       \/ cfg = DEFAULT_CONFIG /\ signal = ShortUtterance
       \/ cfg = QuickConfig /\ signal = FalseStart
    /\ now = 0
    /\ vpc = "constructed"
    /\ vad = NewVad
    /\ ticks = 0
    /\ delivered = <<>>

\* start(stream): the recorder starts and both intervals are armed
VadStart ==
    /\ vpc = "constructed"
    /\ vpc' = "running"
    /\ vad' = [RecorderStart(vad, now) EXCEPT
                  !.audioChunks = <<>>,
                  !.monitoringInterval = now + cfg.energyIntegrationTime,
                  !.checkInterval = now + CheckPeriod]
    /\ UNCHANGED <<cfg, now, signal, ticks, delivered, notVad>>

\* the energy interval fires: the analyser's average energy is processed
Tick ==
    /\ vad.monitoringInterval = now
    /\ ticks < Len(signal)
    /\ ticks' = ticks + 1
    /\ vad' = [ProcessEnergy(cfg, vad, signal[ticks + 1], now) EXCEPT
                  !.monitoringInterval = now + cfg.energyIntegrationTime]
    /\ UNCHANGED <<cfg, now, vpc, signal, delivered, notVad>>

\* the duration interval fires; it was armed after the energy interval, so
\* when both are due and its period is no shorter, the energy interval runs
\* first
Check ==
    /\ vad.checkInterval = now
    /\ cfg.energyIntegrationTime <= CheckPeriod => vad.monitoringInterval # now
    /\ vad' = [CheckVoiceDuration(cfg, vad, now) EXCEPT !.checkInterval = now + CheckPeriod]
    /\ UNCHANGED <<cfg, now, vpc, signal, ticks, delivered, notVad>>

\* ondataavailable at the end of a timeslice
DataAvailable ==
    /\ vad.recorder = "recording"
    /\ vad.recNext = now
    /\ vad' = [vad EXCEPT !.audioChunks = Append(@, AudioChunk(vad.recFrom, now)),
                          !.recFrom = now,
                          !.recNext = now + Timeslice]
    /\ delivered' = Append(delivered, AudioChunk(vad.recFrom, now))
    /\ UNCHANGED <<cfg, now, vpc, signal, ticks, notVad>>

\* ondataavailable for the oldest event a recorder.stop() queued
FlushData ==
    /\ vad.recFlush # <<>>
    /\ vad' = [vad EXCEPT !.audioChunks = Append(@, Head(vad.recFlush)),
                          !.recFlush = Tail(@)]
    /\ delivered' = Append(delivered, Head(vad.recFlush))
    /\ UNCHANGED <<cfg, now, vpc, signal, ticks, notVad>>

\* the callback of endVoice's setTimeout
RestartTimeout ==
    /\ vad.restartTimer = now
    /\ vad' = IF vad.recorder = "inactive"
              THEN [RecorderStart(vad, now) EXCEPT !.restartTimer = -1]
              ELSE [vad EXCEPT !.restartTimer = -1]
    /\ UNCHANGED <<cfg, now, vpc, signal, ticks, delivered, notVad>>

\* stop() is called on the running detector
VadStop ==
    /\ vpc = "running"
    /\ vpc' = "stopped"
    /\ vad' = StopVad(vad, now)
    /\ UNCHANGED <<cfg, now, signal, ticks, delivered, notVad>>

\* time passes until the next timer or timeslice is due; everything due now
\* and every queued event has run
Advance ==
    /\ vpc # "constructed"
    /\ vad.recFlush = <<>>
    /\ Due(vad) # {}
    /\ \A d \in Due(vad) : d > now
    /\ ticks < Len(signal) \/ vad.monitoringInterval = -1
    /\ now' = Min(Due(vad))
    /\ UNCHANGED <<cfg, vpc, vad, signal, ticks, delivered, notVad>>

VadNext ==
    \/ VadStart
    \/ Tick
    \/ Check
    \/ DataAvailable
    \/ FlushData
    \/ RestartTimeout
    \/ VadStop
    \/ Advance

-----------------------------------------------------------------------------
(* The realtime transcription service *)

Providers == {"local-whisper", "siliconflow", "web-speech"}

\* the texts a transcription may return; "" is what a silent segment gives
Transcripts == {"", "a", "b"}

\* the fields of a RealtimeTranscriptionService after its constructor; vad and
\* mediaStream are indexes into detectors and streams, 0 for null
NewService ==
    [isRunning |-> FALSE, vad |-> 0, mediaStream |-> 0, pendingTranscriptions |-> 0]

\* a MediaStream as getUserMedia resolves it: its tracks are live until
\* track.stop(); stops counts the stop() calls its tracks have received
NewStream == [stops |-> 0]

\* a VoiceActivityDetector after `new` and start(stream): "running" if start
\* went through, "failed" if it threw before the intervals were armed
NewDetector(started) ==
    [state |-> IF started THEN "running" ELSE "failed",
     stops |-> 0,              \* the stop() calls it has received
     isVoiceActive |-> FALSE,
     hasAudio |-> FALSE]       \* audioChunks.length > 0

Live(ss) == {i \in DOMAIN ss : ss[i].stops = 0}

Running(ds) == {d \in DOMAIN ds : ds[d].state = "running"}

\* the calls of one kind made so far
CallsOf(kind) == Len(SelectSeq(calls, LAMBDA c : c = kind))

\* onVoiceEnd waiting for the transcription in flight before it starts the
\* next: a faulty variant that holds closed segments back
DispatchedWhenIdle(js, d) ==
    IF \E j \in DOMAIN js : js[j].pc # "settled"
    THEN js
    ELSE Append(js, [pc |-> "convert", detector |-> d, outcome |-> "pending"])

\* transcribeAudioSegment up to its first await: the counter is incremented
\* and the call joins the ones in flight
Dispatched(js, d) == Append(js, [pc |-> "convert", detector |-> d, outcome |-> "pending"])

\* mediaStream.getTracks().forEach(track => track.stop()) left out: a faulty
\* variant that keeps the microphone open
LeaveTracks(ss, m) == ss

\* this.mediaStream.getTracks().forEach(track => track.stop())
StopTracks(ss, m) == [ss EXCEPT ![m].stops = @ + 1]

\* VoiceActivityDetector.stop() as the service sees it: the detector stops,
\* and onVoiceEnd is called for an open segment that has audio
StopDetector(ds, d) ==
    [ds EXCEPT ![d].state = "stopped", ![d].stops = @ + 1,
               ![d].isVoiceActive = FALSE, ![d].hasAudio = FALSE]

FlushesOnStop(ds, d) == ds[d].isVoiceActive /\ ds[d].hasAudio

\* the catch block of transcribeAudioSegment also ending the session: a
\* faulty variant
TranscriptionFailedStopping(svc) ==
    [svc EXCEPT !.pendingTranscriptions = @ - 1, !.isRunning = FALSE]

\* the catch block of transcribeAudioSegment without its finally block: a
\* faulty variant that never counts a failed call as settled
TranscriptionFailedCounting(svc) == svc

\* what the catch and finally blocks of transcribeAudioSegment do to the
\* service's fields
TranscriptionFailed(svc) == [svc EXCEPT !.pendingTranscriptions = @ - 1]

ServiceInit ==
    /\ provider \in Providers
    /\ modelDownloaded \in BOOLEAN
    /\ service = NewService
    /\ calls = <<>>
    /\ starts = <<>>
    /\ streams = <<>>
    /\ detectors = <<>>
    /\ jobs = <<>>
    /\ transcripts = <<>>
    /\ errors = <<>>

\* start() is called: it returns at once if isRunning, and otherwise runs up
\* to `await navigator.mediaDevices.getUserMedia(...)`
ServiceStart ==
    /\ CallsOf("start") < MaxStarts
    /\ calls' = Append(calls, "start")
    /\ starts' = Append(starts, [pc |-> IF service.isRunning THEN "returned" ELSE "getUserMedia",
                                 stream |-> 0, detector |-> 0,
                                 after |-> Len(errors)])   \* the errors reported so far
    /\ UNCHANGED <<provider, modelDownloaded, service, streams, detectors, jobs,
                   transcripts, errors, notService>>

\* getUserMedia resolves for a start() call: the stream is stored, the
\* detector is constructed and stored, and vad.start(stream) runs; the call
\* is then at `await this.vad.start(...)`, whose promise is fulfilled or, if
\* start threw, rejected
GetUserMediaResolves ==
    \E i \in DOMAIN starts, started \in BOOLEAN :
        /\ starts[i].pc = "getUserMedia"
        /\ streams' = Append(streams, NewStream)
        /\ detectors' = Append(detectors, NewDetector(started))
        /\ service' = [service EXCEPT !.mediaStream = Len(streams) + 1,
                                      !.vad = Len(detectors) + 1]
        /\ starts' = [starts EXCEPT ![i].pc = IF started THEN "vadStart" ELSE "vadStartThrew",
                                     ![i].stream = Len(streams) + 1,
                                     ![i].detector = Len(detectors) + 1]
        /\ UNCHANGED <<provider, modelDownloaded, calls, jobs, transcripts, errors,
                       notService>>

\* getUserMedia rejects and start() swallows it: a faulty variant whose
\* caller sees start() resolve and whose observer hears nothing
GetUserMediaRejectsSilently ==
    \E i \in DOMAIN starts :
        /\ starts[i].pc = "getUserMedia"
        /\ starts' = [starts EXCEPT ![i].pc = "resolved"]
        /\ UNCHANGED <<provider, modelDownloaded, service, calls, streams, detectors,
                       jobs, transcripts, errors, notService>>

\* getUserMedia rejects: the catch block reports the error and rethrows
GetUserMediaRejects ==
    \E i \in DOMAIN starts :
        /\ starts[i].pc = "getUserMedia"
        /\ starts' = [starts EXCEPT ![i].pc = "rejected"]
        /\ errors' = Append(errors, [kind |-> "getUserMedia", dispatched |-> Len(jobs)])
        /\ UNCHANGED <<provider, modelDownloaded, service, calls, streams, detectors,
                       jobs, transcripts, notService>>

\* start() resumes after `await this.vad.start(...)`: isRunning becomes true,
\* or the catch block reports the error and rethrows
StartSettles ==
    \E i \in DOMAIN starts :
        /\ starts[i].pc \in {"vadStart", "vadStartThrew"}
        /\ IF starts[i].pc = "vadStart"
           THEN /\ service' = [service EXCEPT !.isRunning = TRUE]
                /\ starts' = [starts EXCEPT ![i].pc = "resolved"]
                /\ UNCHANGED errors
           ELSE /\ starts' = [starts EXCEPT ![i].pc = "rejected"]
                /\ errors' = Append(errors, [kind |-> "vadStart", dispatched |-> Len(jobs)])
                /\ UNCHANGED service
        /\ UNCHANGED <<provider, modelDownloaded, calls, streams, detectors, jobs,
                       transcripts, notService>>

\* stop() is called
ServiceStop ==
    /\ CallsOf("stop") < MaxStops
    /\ calls' = Append(calls, "stop")
    /\ IF ~service.isRunning
       THEN UNCHANGED <<service, streams, detectors, jobs>>
       ELSE LET d == service.vad
                m == service.mediaStream
                flush == d # 0 /\ FlushesOnStop(detectors, d)
            IN  /\ detectors' = IF d # 0 THEN StopDetector(detectors, d) ELSE detectors
                /\ jobs' = IF flush THEN Dispatched(jobs, d) ELSE jobs
                /\ streams' = IF m # 0 THEN StopTracks(streams, m) ELSE streams
                /\ service' = [service EXCEPT
                                  !.vad = 0, !.mediaStream = 0, !.isRunning = FALSE,
                                  !.pendingTranscriptions = IF flush THEN @ + 1 ELSE @]
    /\ UNCHANGED <<provider, modelDownloaded, starts, transcripts, errors, notService>>

\* a running detector hears voice: startVoice()
SegmentOpens ==
    \E d \in Running(detectors) :
        /\ ~detectors[d].isVoiceActive
        /\ Len(jobs) + Cardinality({e \in DOMAIN detectors : detectors[e].isVoiceActive})
               < MaxSegments
        /\ detectors' = [detectors EXCEPT ![d].isVoiceActive = TRUE, ![d].hasAudio = FALSE]
        /\ UNCHANGED <<provider, modelDownloaded, service, calls, starts, streams, jobs,
                       transcripts, errors, notService>>

\* the recorder of a running detector delivers a chunk
SegmentAudio ==
    \E d \in Running(detectors) :
        /\ detectors[d].isVoiceActive /\ ~detectors[d].hasAudio
        /\ detectors' = [detectors EXCEPT ![d].hasAudio = TRUE]
        /\ UNCHANGED <<provider, modelDownloaded, service, calls, starts, streams, jobs,
                       transcripts, errors, notService>>

\* a running detector closes its segment: endVoice() calls onVoiceEnd, which
\* calls transcribeAudioSegment, unless no chunk has arrived
SegmentCloses ==
    \E d \in Running(detectors) :
        /\ detectors[d].isVoiceActive
        /\ detectors' = [detectors EXCEPT ![d].isVoiceActive = FALSE, ![d].hasAudio = FALSE]
        /\ IF detectors[d].hasAudio
           THEN /\ jobs' = Dispatched(jobs, d)
                /\ service' = [service EXCEPT !.pendingTranscriptions = @ + 1]
           ELSE UNCHANGED <<jobs, service>>
        /\ UNCHANGED <<provider, modelDownloaded, calls, starts, streams, transcripts,
                       errors, notService>>

\* transcribeAudioSegment resumes after `await this.convertAudioFormat(...)`:
\* it starts the provider's transcription, or returns early (through finally)
\* when the whisper model is missing or the provider transcribes no files.
\* convertAudioFormat awaits nothing, so the calls resume in the order in
\* which they were made
JobProceeds ==
    \E j \in DOMAIN jobs :
        /\ jobs[j].pc = "convert"
        /\ \A k \in 1..(j - 1) : jobs[k].pc # "convert"
        /\ IF provider = "local-whisper" /\ ~modelDownloaded
           THEN /\ errors' = Append(errors, [kind |-> "model", dispatched |-> Len(jobs)])
                /\ jobs' = [jobs EXCEPT ![j].pc = "settled", ![j].outcome = "no model"]
                /\ service' = [service EXCEPT !.pendingTranscriptions = @ - 1]
           ELSE IF provider \in {"local-whisper", "siliconflow"}
           THEN /\ jobs' = [jobs EXCEPT ![j].pc = "transcribe"]
                /\ UNCHANGED <<errors, service>>
           ELSE /\ jobs' = [jobs EXCEPT ![j].pc = "settled", ![j].outcome = "unsupported"]
                /\ service' = [service EXCEPT !.pendingTranscriptions = @ - 1]
                /\ UNCHANGED errors
        /\ UNCHANGED <<provider, modelDownloaded, calls, starts, streams, detectors,
                       transcripts, notService>>

\* the provider's transcription resolves: a non-empty text goes to onTranscript
JobSucceeds ==
    \E j \in DOMAIN jobs, text \in Transcripts :
        /\ jobs[j].pc = "transcribe"
        /\ transcripts' = IF text # ""
                          THEN Append(transcripts, [job |-> j, text |-> text, isFinal |-> TRUE])
                          ELSE transcripts
        /\ jobs' = [jobs EXCEPT ![j].pc = "settled",
                                ![j].outcome = IF text # "" THEN "transcript" ELSE "empty"]
        /\ service' = [service EXCEPT !.pendingTranscriptions = @ - 1]
        /\ UNCHANGED <<provider, modelDownloaded, calls, starts, streams, detectors,
                       errors, notService>>

\* the provider's transcription rejects: the catch block calls onError
JobFails ==
    \E j \in DOMAIN jobs :
        /\ jobs[j].pc = "transcribe"
        /\ errors' = Append(errors, [kind |-> "transcribe", dispatched |-> Len(jobs)])
        /\ jobs' = [jobs EXCEPT ![j].pc = "settled", ![j].outcome = "error"]
        /\ service' = TranscriptionFailed(service)
        /\ UNCHANGED <<provider, modelDownloaded, calls, starts, streams, detectors,
                       transcripts, notService>>

ServiceNext ==
    \/ ServiceStart
    \/ GetUserMediaResolves
    \/ GetUserMediaRejects
    \/ StartSettles
    \/ ServiceStop
    \/ SegmentOpens
    \/ SegmentAudio
    \/ SegmentCloses
    \/ JobProceeds
    \/ JobSucceeds
    \/ JobFails

-----------------------------------------------------------------------------
(* Realtime recording in TranslationTool: startRecording, stopRecording and  *)
(* the onTranscript/onError callbacks it hands to the service                *)

\* setTimeout(..., 800) of the realtime translation debounce
DebouncePeriod == 800

\* the source languages tried: one written with spaces, one without
Langs == {"en", "zh"}

\* what the source box holds before the first recording: nothing, or a text
\* typed earlier
TypedTexts == {"", "x"}

\* the non-empty text the transcription of the g-th segment resolves to:
\* "a" for the first, "b" for the second, and so on
SegmentText(g) == Substring("abcdefgh", g - 1, g)

\* const sourceLangUsesSpaces = !['zh', 'ja', 'ko'].includes(sourceLang)
SourceLangUsesSpaces(lang) == lang \notin {"zh", "ja", "ko"}

Separator(usesSpaces) == IF usesSpaces THEN " " ELSE ""

\* String.prototype.trim, for the space character
RECURSIVE Trim(_)
Trim(s) ==
    IF s = "" THEN s
    ELSE IF Substring(s, 0, 1) = " " THEN Trim(SubstringFrom(s, 1))
    ELSE IF SubstringFrom(s, Len(s) - 1) = " " THEN Trim(Substring(s, 0, Len(s) - 1))
    ELSE s

\* the updater with `return text` for its last line: a faulty variant that
\* overwrites the accumulated text
ReplaceTranscript(prev, text, usesSpaces) == text

\* the updater passed to setSourceText: prev => !prev ? text : prev + separator + text
AppendTranscript(prev, text, usesSpaces) ==
    IF prev = "" THEN text ELSE prev \o Separator(usesSpaces) \o text

\* clearTimeout left out: a faulty variant that lets every transcript's timer
\* run
KeepTimeout(ts, ref) == ts

\* clearTimeout(realtimeTranslationTimerRef.current)
ClearTimeout(ts, ref) == {t \in ts : t.id # ref}

\* the text the timer callback translates: the sourceText of the render that
\* ran startRecording, the separator and the transcript that armed the timer
CurrentText(closure, text) ==
    closure.sourceText \o Separator(closure.sourceLangUsesSpaces) \o text

\* a RealtimeTranscriptionService as TranslationTool sees it, with the
\* variables its callbacks closed over
NewSession(text, lang) ==
    [state |-> "starting",       \* "starting", "running" (isActive()), "stopped" or "failed"
     pending |-> {},             \* the segments whose transcription is in flight
     closure |-> [sourceText |-> text, sourceLangUsesSpaces |-> SourceLangUsesSpaces(lang)]]

\* a handleTranslate call as the log keeps it
Translation(text, by) ==
    [text |-> text, by |-> by, at |-> clock, accumulated |-> sourceText,
     finalsThen |-> Len(finals)]

RecordingInit ==
    /\ sourceLang \in Langs
    /\ sourceText \in TypedTexts
    /\ sourceText # "" => SourceLangUsesSpaces(sourceLang)
    /\ isRecording = FALSE
    /\ isTranslating = FALSE
    /\ error = "null"
    /\ realtimeTranscriptionRef = 0
    /\ realtimeTranslationTimerRef = 0
    /\ sessions = <<>>
    /\ timers = {}
    /\ timerIds = 0
    /\ segments = 0
    /\ clock = 0
    /\ clicks = <<>>
    /\ received = <<>>
    /\ finals = <<>>
    /\ translations = <<>>

\* the record button is pressed: startRecording() up to `await ...start()`
StartRecording ==
    /\ ~isRecording
    /\ Len(sessions) < MaxSessions
    /\ clicks' = Append(clicks, "start")
    /\ sourceText' = ""
    /\ received' = <<>>
    /\ error' = "null"
    /\ isRecording' = TRUE
    /\ sessions' = Append(sessions, NewSession(sourceText, sourceLang))
    /\ realtimeTranscriptionRef' = Len(sessions) + 1
    /\ UNCHANGED <<sourceLang, isTranslating, realtimeTranslationTimerRef, timers, timerIds,
                   segments, clock, finals, translations, notRecording>>

\* the service's start() resolves
RealtimeStarted ==
    \E s \in DOMAIN sessions :
        /\ sessions[s].state = "starting"
        /\ sessions' = [sessions EXCEPT ![s].state = "running"]
        /\ UNCHANGED <<sourceLang, sourceText, isRecording, isTranslating, error,
                       realtimeTranscriptionRef, realtimeTranslationTimerRef, timers,
                       timerIds, segments, clock, clicks, received, finals, translations,
                       notRecording>>

\* the service's start() rejects: onError and then the catch block of
\* startRecording run
RealtimeStartFailed ==
    \E s \in DOMAIN sessions :
        /\ sessions[s].state = "starting"
        /\ sessions' = [sessions EXCEPT ![s].state = "failed"]
        /\ \E permission \in BOOLEAN :
               error' = IF permission THEN "error.message"
                        ELSE "Failed to access microphone for realtime transcription"
        /\ isRecording' = FALSE
        /\ UNCHANGED <<sourceLang, sourceText, isTranslating, realtimeTranscriptionRef,
                       realtimeTranslationTimerRef, timers, timerIds, segments, clock,
                       clicks, received, finals, translations, notRecording>>

\* the detector of a running service closes a segment, whose transcription
\* starts
SegmentDispatched ==
    \E s \in DOMAIN sessions :
        /\ sessions[s].state = "running"
        /\ segments < MaxFinals
        /\ sessions' = [sessions EXCEPT ![s].pending = @ \cup {segments + 1}]
        /\ segments' = segments + 1
        /\ UNCHANGED <<sourceLang, sourceText, isRecording, isTranslating, error,
                       realtimeTranscriptionRef, realtimeTranslationTimerRef, timers,
                       timerIds, clock, clicks, received, finals, translations,
                       notRecording>>

\* onTranscript(text, true): a transcription in flight delivers a non-empty
\* text
FinalTranscript ==
    \E s \in DOMAIN sessions :
      \E g \in sessions[s].pending :
       LET text == SegmentText(g) IN
        /\ sessions' = [sessions EXCEPT ![s].pending = @ \ {g}]
        /\ sourceText' = AppendTranscript(sourceText, text,
                                          sessions[s].closure.sourceLangUsesSpaces)
        /\ received' = Append(received, text)
        /\ finals' = Append(finals, [text |-> text, at |-> clock, segment |-> g])
        /\ timerIds' = timerIds + 1
        /\ timers' = (IF realtimeTranslationTimerRef # 0
                      THEN ClearTimeout(timers, realtimeTranslationTimerRef)
                      ELSE timers)
                     \cup {[id |-> timerIds + 1, due |-> clock + DebouncePeriod,
                            currentText |-> CurrentText(sessions[s].closure, text)]}
        /\ realtimeTranslationTimerRef' = timerIds + 1
        /\ UNCHANGED <<sourceLang, isRecording, isTranslating, error,
                       realtimeTranscriptionRef, segments, clock, clicks, translations,
                       notRecording>>

\* a transcription in flight ends without a transcript: it returned an empty
\* text, or it failed and onError set the error
TranscriptionQuiet ==
    \E s \in DOMAIN sessions, failed \in BOOLEAN :
      \E g \in sessions[s].pending :
        /\ sessions' = [sessions EXCEPT ![s].pending = @ \ {g}]
        /\ error' = IF failed THEN "error.message" ELSE error
        /\ UNCHANGED <<sourceLang, sourceText, isRecording, isTranslating,
                       realtimeTranscriptionRef, realtimeTranslationTimerRef, timers,
                       timerIds, segments, clock, clicks, received, finals, translations,
                       notRecording>>

\* a pending debounce timer is due: its callback calls handleTranslate with
\* its currentText, trimmed, unless that is empty; `request` says whether
\* handleTranslate sends a request (it does not on a cache hit)
DebounceFires ==
    \E t \in timers, request \in BOOLEAN :
        /\ t.due <= clock
        /\ timers' = timers \ {t}
        /\ IF Trim(t.currentText) # ""
           THEN /\ translations' = Append(translations,
                                          Translation(Trim(t.currentText), "debounce"))
                /\ isTranslating' = (isTranslating \/ request)
           ELSE UNCHANGED <<translations, isTranslating>>
        /\ UNCHANGED <<sourceLang, sourceText, isRecording, error,
                       realtimeTranscriptionRef, realtimeTranslationTimerRef, sessions,
                       timerIds, segments, clock, clicks, received, finals, notRecording>>

\* the stop button is pressed: stopRecording(); `flush` says whether the
\* detector has an open segment with audio for stop() to flush, `request`
\* whether handleTranslate sends a request
StopRecording ==
    /\ isRecording
    /\ clicks' = Append(clicks, "stop")
    /\ isRecording' = FALSE
    /\ timers' = IF realtimeTranslationTimerRef # 0
                 THEN ClearTimeout(timers, realtimeTranslationTimerRef)
                 ELSE timers
    /\ realtimeTranslationTimerRef' = 0
    /\ IF realtimeTranscriptionRef # 0 /\ sessions[realtimeTranscriptionRef].state = "running"
       THEN /\ \E flush \in BOOLEAN :
                   /\ flush => segments < MaxFinals
                   /\ sessions' = [sessions EXCEPT
                                      ![realtimeTranscriptionRef].state = "stopped",
                                      ![realtimeTranscriptionRef].pending =
                                          IF flush THEN @ \cup {segments + 1} ELSE @]
                   /\ segments' = IF flush THEN segments + 1 ELSE segments
            /\ realtimeTranscriptionRef' = 0
            /\ IF sourceText # "" /\ ~isTranslating
               THEN /\ translations' = Append(translations, Translation(sourceText, "stop"))
                    /\ \E request \in BOOLEAN : isTranslating' = request
               ELSE UNCHANGED <<translations, isTranslating>>
       ELSE UNCHANGED <<sessions, segments, realtimeTranscriptionRef, translations,
                        isTranslating>>
    /\ UNCHANGED <<sourceLang, sourceText, error, timerIds, clock, received, finals,
                   notRecording>>

\* the translation request settles: handleTranslate's finally block
TranslateSettles ==
    /\ isTranslating
    /\ isTranslating' = FALSE
    /\ UNCHANGED <<sourceLang, sourceText, isRecording, error, realtimeTranscriptionRef,
                   realtimeTranslationTimerRef, sessions, timers, timerIds, segments, clock,
                   clicks, received, finals, translations, notRecording>>

\* half a debounce period passes; a timer that is due has fired
ClockAdvances ==
    /\ clock < MaxHalfPeriods * (DebouncePeriod \div 2)
    /\ \A t \in timers : t.due > clock
    /\ clock' = clock + DebouncePeriod \div 2
    /\ UNCHANGED <<sourceLang, sourceText, isRecording, isTranslating, error,
                   realtimeTranscriptionRef, realtimeTranslationTimerRef, sessions, timers,
                   timerIds, segments, clicks, received, finals, translations,
                   notRecording>>

RecordingNext ==
    \/ StartRecording
    \/ RealtimeStarted
    \/ RealtimeStartFailed
    \/ SegmentDispatched
    \/ FinalTranscript
    \/ TranscriptionQuiet
    \/ DebounceFires
    \/ StopRecording
    \/ TranslateSettles
    \/ ClockAdvances

-----------------------------------------------------------------------------
(* The text pane of TranslationTool: handleTranslate with its cache,         *)
(* handleWordExplanation, their abort controllers and the mode toggle;       *)
(* error, isTranslating, sourceText and the clock are the ones above         *)

\* const CACHE_DURATION = 10 * 60 * 1000
CACHE_DURATION == 600000

\* the texts handleTranslate is called with
SourceTexts == {"", " ", "a", "b"}

\* the texts typed into the source pane
TypedSourceTexts == {"", "a"}

\* type InputMethod: the methods the three buttons switch between
InputMethods == {"text", "image", "qa"}

\* the chunks explainWord may yield to its consumer
ExplanationChunks == {"e", THINKING_START, THINKING_END}

\* what the provider translates a text to
Translated(text) == "[" \o text \o "]"

\* what translateText throws when its request fails for `cause` ("AbortError"
\* when the signal was raised): its catch block wraps every error in a new
\* Error, whose name is "Error"
TranslateTextError(cause) ==
    [name |-> "Error", message |-> "Translation failed: " \o cause]

\* what explainWord throws when its stream fails for `cause`: its catch block
\* wraps every error as well
ExplainWordError(cause) ==
    [name |-> "Error", message |-> "Explanation failed: " \o cause]

\* the test of the handlers' catch blocks:
\* error instanceof Error && error.name === 'AbortError'
IsAbortError(err) == err.name = "AbortError"

\* getCachedTranslation's test of an entry
CacheValid(entry, t) == t - entry.timestamp < CACHE_DURATION

\* getCacheKey(text, from, to)
getCacheKey(text, from, to) == from \o ":" \o to \o ":" \o text

\* the entry of the cache under a key, as a set: empty if there is none
CacheEntries(cache, key) == {e \in cache : e.key = key}

\* cacheTranslation(text, from, to, result), for key = getCacheKey(text, from, to)
CacheTranslation(cache, key, result, t) ==
    (cache \ CacheEntries(cache, key))
        \cup {[key |-> key, result |-> result, timestamp |-> t]}

\* debounceTimerRef.current when no timer is pending
NoTimer == [text |-> "", mode |-> "none", from |-> "", to |-> ""]

\* a request as its handler starts it: `from` and `to` are the languages the
\* handler was called with, `call` is the number of the handleTranslate call
\* (0 for an explanation), `streamed` the handler's local streamedText
NewRequest(kind, text, from, to, call) ==
    [kind |-> kind, text |-> text, from |-> from, to |-> to, call |-> call,
     aborted |-> FALSE,
     pc |-> IF kind = "translation" THEN "translateText" ELSE "explainWord",
     streamed |-> ""]

\* the requests of one kind
Requests(kind) == {r \in DOMAIN requests : requests[r].kind = kind}

\* ref.current.abort(), if the ref holds a controller
Abort(rs, ref) == IF ref # 0 THEN [rs EXCEPT ![ref].aborted = TRUE] ELSE rs

\* the state of the pane that its handlers read and write
Pane ==
    [targetText |-> targetText, error |-> error, isTranslating |-> isTranslating,
     isThinking |-> isThinking, textMode |-> textMode,
     translationAbortControllerRef |-> translationAbortControllerRef,
     explanationAbortControllerRef |-> explanationAbortControllerRef,
     translationCache |-> translationCache, requests |-> requests, handled |-> handled]

\* the pane becomes p
Commit(p) ==
    /\ targetText' = p.targetText
    /\ error' = p.error
    /\ isTranslating' = p.isTranslating
    /\ isThinking' = p.isThinking
    /\ textMode' = p.textMode
    /\ translationAbortControllerRef' = p.translationAbortControllerRef
    /\ explanationAbortControllerRef' = p.explanationAbortControllerRef
    /\ translationCache' = p.translationCache
    /\ requests' = p.requests
    /\ handled' = p.handled

\* handleTranslate(text, from, to) up to `await translateText(...)`
handleTranslate(p, text, from, to) ==
    LET sameLang == from = to
        hits == CacheEntries(p.translationCache, getCacheKey(text, from, to))
        valid == {e \in hits : CacheValid(e, clock) /\ e.result # ""}
    IN  IF Trim(text) = ""
        THEN [p EXCEPT !.targetText = "",
                       !.handled = Append(@, [text |-> text, path |-> "empty"])]
        ELSE IF sameLang
        THEN [p EXCEPT !.handled = Append(@, [text |-> text, path |-> "same language"])]
        ELSE IF valid # {}
        THEN [p EXCEPT !.targetText = (CHOOSE e \in valid : TRUE).result,
                       !.handled = Append(@, [text |-> text, path |-> "cached"])]
        ELSE [p EXCEPT !.translationCache = @ \ hits,
                       !.requests = Append(Abort(@, p.translationAbortControllerRef),
                                           NewRequest("translation", text, from, to,
                                                       Len(p.handled) + 1)),
                       !.translationAbortControllerRef = Len(p.requests) + 1,
                       !.isTranslating = TRUE,
                       !.error = "null",
                       !.handled = Append(@, [text |-> text, path |-> "request"])]

\* handleWordExplanation(word, wordLang, explanationLang) up to its loop over
\* explainWord
handleWordExplanation(p, word, wordLang, explanationLang) ==
    LET sameLang == wordLang = explanationLang IN
    IF Trim(word) = ""
    THEN [p EXCEPT !.targetText = ""]
    ELSE IF sameLang \/ ~generalAIConfigured
    THEN p
    ELSE [p EXCEPT !.requests = Append(Abort(@, p.explanationAbortControllerRef),
                                       NewRequest("explanation", word, wordLang,
                                                  explanationLang, 0)),
                   !.explanationAbortControllerRef = Len(p.requests) + 1,
                   !.isTranslating = TRUE,
                   !.error = "null",
                   !.targetText = "",
                   !.isThinking = FALSE]

\* a write of targetText or error by the completion of a handleTranslate
\* request, as the log keeps it; `cause` is why the request failed, "none"
\* if it succeeded
Write(r, what, cause) ==
    [call |-> requests[r].call, what |-> what, cause |-> cause,
     latestThen |-> Len(handled), aborted |-> requests[r].aborted]

\* handleTranslate's finally block
Finally(r) ==
    IF translationAbortControllerRef = r
    THEN /\ isTranslating' = FALSE
         /\ translationAbortControllerRef' = 0
    ELSE UNCHANGED <<isTranslating, translationAbortControllerRef>>

\* handleWordExplanation's finally block
FinallyExplanation(r) ==
    IF explanationAbortControllerRef = r
    THEN /\ isTranslating' = FALSE
         /\ isThinking' = FALSE
         /\ explanationAbortControllerRef' = 0
    ELSE UNCHANGED <<isTranslating, isThinking, explanationAbortControllerRef>>

TranslateInit ==
    /\ targetText = ""
    /\ translationAbortControllerRef = 0
    /\ translationCache = {}
    /\ requests = <<>>
    /\ handled = <<>>
    /\ writes = <<>>
    /\ textMode = "translation"
    /\ isThinking = FALSE
    /\ explanationAbortControllerRef = 0
    /\ debounceTimerRef = NoTimer
    /\ edits = 0
    /\ toggles = 0
    /\ inputMethod = "text"
    /\ staleRequests = 0

\* handleTranslate is called
HandleTranslate ==
    \E text \in SourceTexts, to \in Langs :
        /\ Len(handled) < MaxCalls
        /\ Commit(handleTranslate(Pane, text, sourceLang, to))
        /\ UNCHANGED <<writes, paneRest, clock, recordingRest, notTool>>

\* translateText resolves for a request: the result is shown and cached
\* unless the request's signal has been raised
TranslateResolves ==
    \E r \in Requests("translation") :
        /\ requests[r].pc = "translateText"
        /\ requests' = [requests EXCEPT ![r].pc = "done"]
        /\ IF ~requests[r].aborted
           THEN /\ targetText' = Translated(requests[r].text)
                /\ translationCache' =
                       CacheTranslation(translationCache,
                                        getCacheKey(requests[r].text, requests[r].from,
                                                    requests[r].to),
                                        Translated(requests[r].text), clock)
                /\ writes' = Append(writes, Write(r, "targetText", "none"))
           ELSE UNCHANGED <<targetText, translationCache, writes>>
        /\ Finally(r)
        /\ UNCHANGED <<error, handled, isThinking, textMode, explanationAbortControllerRef,
                       paneRest, clock, recordingRest, notTool>>

\* translateText rejects for a request, because its signal was raised or for
\* another cause: the catch block returns on an AbortError and otherwise
\* shows the error and clears the target text
TranslateRejects ==
    \E r \in Requests("translation"), cause \in {"AbortError", "network"} :
        /\ requests[r].pc = "translateText"
        /\ cause = "AbortError" => requests[r].aborted
        /\ requests' = [requests EXCEPT ![r].pc = "done"]
        /\ IF IsAbortError(TranslateTextError(cause))
           THEN UNCHANGED <<error, targetText, writes>>
           ELSE /\ error' = TranslateTextError(cause).message
                /\ targetText' = ""
                /\ writes' = Append(writes, Write(r, "error", cause))
        /\ Finally(r)
        /\ UNCHANGED <<translationCache, handled, isThinking, textMode,
                       explanationAbortControllerRef, paneRest, clock,
                       recordingRest, notTool>>

\* handleTextChange while the text input is shown: the text typed becomes
\* the source text and the pending timer is replaced; the new timer's
\* callback has the text, the mode and the languages of the render the
\* handler belongs to
HandleTextChange ==
    \E newText \in TypedSourceTexts :
        /\ inputMethod = "text"
        /\ edits < MaxEdits
        /\ edits' = edits + 1
        /\ sourceText' = newText
        /\ IF Trim(newText) # ""
           THEN /\ debounceTimerRef' = [text |-> newText, mode |-> textMode,
                                        from |-> sourceLang, to |-> targetLang]
                /\ UNCHANGED targetText
           ELSE /\ debounceTimerRef' = NoTimer
                /\ targetText' = ""
        /\ UNCHANGED <<error, isTranslating, isThinking, textMode,
                       translationAbortControllerRef, explanationAbortControllerRef,
                       translationCache, requests, handled, writes, toggles, paneInputs,
                       clock, recordingOnly, notTool>>

\* the callback of handleTextChange's timer, 600 ms after the last keystroke
TextDebounceFires ==
    /\ debounceTimerRef # NoTimer
    /\ debounceTimerRef' = NoTimer
    /\ Commit(IF debounceTimerRef.mode = "explanation"
              THEN handleWordExplanation(Pane, debounceTimerRef.text,
                                         debounceTimerRef.from, debounceTimerRef.to)
              ELSE handleTranslate(Pane, debounceTimerRef.text,
                                   debounceTimerRef.from, debounceTimerRef.to))
    /\ UNCHANGED <<writes, edits, toggles, paneInputs, clock, recordingRest, notTool>>

\* explainWord yields a chunk to the loop of handleWordExplanation: the loop
\* breaks if the signal has been raised, tracks a sentinel in isThinking, and
\* otherwise appends the chunk to the text shown
ExplanationYields ==
    \E r \in Requests("explanation"), chunk \in ExplanationChunks :
        /\ requests[r].pc = "explainWord"
        /\ Len(requests[r].streamed) < MaxYields
        /\ IF requests[r].aborted
           THEN /\ requests' = [requests EXCEPT ![r].pc = "done"]
                /\ UNCHANGED targetText
                /\ FinallyExplanation(r)
           ELSE IF chunk \in {THINKING_START, THINKING_END}
           THEN /\ isThinking' = (chunk = THINKING_START)
                /\ UNCHANGED <<requests, targetText, isTranslating,
                               explanationAbortControllerRef>>
           ELSE /\ requests' = [requests EXCEPT ![r].streamed = @ \o chunk]
                /\ targetText' = requests[r].streamed \o chunk
                /\ UNCHANGED <<isTranslating, isThinking, explanationAbortControllerRef>>
        /\ UNCHANGED <<error, translationCache, handled, writes, textMode,
                       translationAbortControllerRef, paneRest, clock,
                       recordingRest, notTool>>

\* the stream of explainWord ends and the loop with it
ExplanationEnds ==
    \E r \in Requests("explanation") :
        /\ requests[r].pc = "explainWord"
        /\ requests' = [requests EXCEPT ![r].pc = "done"]
        /\ FinallyExplanation(r)
        /\ UNCHANGED <<targetText, error, translationCache, handled, writes, textMode,
                       translationAbortControllerRef, paneRest, clock,
                       recordingRest, notTool>>

\* explainWord throws, because its signal was raised or for another cause
ExplanationThrows ==
    \E r \in Requests("explanation"), cause \in {"AbortError", "network"} :
        /\ requests[r].pc = "explainWord"
        /\ cause = "AbortError" => requests[r].aborted
        /\ requests' = [requests EXCEPT ![r].pc = "done"]
        /\ IF IsAbortError(ExplainWordError(cause))
           THEN UNCHANGED <<error, targetText>>
           ELSE /\ error' = ExplainWordError(cause).message
                /\ targetText' = ""
        /\ FinallyExplanation(r)
        /\ UNCHANGED <<translationCache, handled, writes, textMode,
                       translationAbortControllerRef, paneRest, clock,
                       recordingRest, notTool>>

\* the onClick of the button that toggles translation and explanation,
\* which the text input shows: the output is cleared, the old mode's request
\* is aborted and its ref set to null, and the new mode's handler is called
\* if there is source text
ToggleTextMode ==
    /\ inputMethod = "text"
    /\ toggles < MaxToggles
    /\ toggles' = toggles + 1
    /\ LET newMode == IF textMode = "translation" THEN "explanation" ELSE "translation"
           cancelled ==
               IF textMode = "translation"
               THEN [Pane EXCEPT !.textMode = newMode, !.targetText = "",
                                 !.requests = Abort(@, translationAbortControllerRef),
                                 !.translationAbortControllerRef = 0]
               ELSE [Pane EXCEPT !.textMode = newMode, !.targetText = "",
                                 !.requests = Abort(@, explanationAbortControllerRef),
                                 !.explanationAbortControllerRef = 0]
       IN  Commit(IF Trim(sourceText) = "" THEN cancelled
                  ELSE IF newMode = "explanation"
                  THEN handleWordExplanation(cancelled, sourceText, sourceLang, targetLang)
                  ELSE handleTranslate(cancelled, sourceText, sourceLang, targetLang))
    /\ UNCHANGED <<writes, debounceTimerRef, edits, paneInputs, clock, recordingRest,
                   notTool>>

\* the pairs of input methods, old and new, between which
\* handleInputMethodChange swaps the two languages
SwapsLanguages ==
    {<<"text", "image">>, <<"image", "text">>, <<"image", "qa">>, <<"qa", "image">>}

\* handleInputMethodChange(method) while nothing is being recorded: the mode
\* goes back to translation, the source text, the target text and the error
\* are cleared, and the languages are swapped between some methods; no
\* controller is touched and no timer is cleared
HandleInputMethodChange ==
    \E method \in InputMethods :
        /\ ~isRecording
        /\ inputMethod' = method
        /\ textMode' = "translation"
        /\ sourceText' = ""
        /\ targetText' = ""
        /\ error' = "null"
        /\ IF <<inputMethod, method>> \in SwapsLanguages
           THEN /\ sourceLang' = targetLang
                /\ targetLang' = sourceLang
           ELSE UNCHANGED <<sourceLang, targetLang>>
        /\ staleRequests' = Len(requests)
        /\ UNCHANGED <<isTranslating, isThinking, translationAbortControllerRef,
                       explanationAbortControllerRef, translationCache, requests, handled,
                       writes, debounceTimerRef, edits, toggles, generalAIConfigured,
                       clock, isRecording, realtimeTranscriptionRef,
                       realtimeTranslationTimerRef, sessions, timers, timerIds, segments,
                       clicks, received, finals, translations, notTool>>

\* half the cache duration passes
CacheAges ==
    /\ clock < MaxCacheAges * (CACHE_DURATION \div 2)
    /\ clock' = clock + CACHE_DURATION \div 2
    /\ UNCHANGED <<translateVars, isTranslating, error, recordingRest, notTool>>

TranslateNext ==
    \/ HandleTranslate
    \/ TranslateResolves
    \/ TranslateRejects
    \/ CacheAges

PaneNext ==
    \/ HandleInputMethodChange
    \/ HandleTextChange
    \/ TextDebounceFires
    \/ ToggleTextMode
    \/ TranslateResolves
    \/ TranslateRejects
    \/ ExplanationYields
    \/ ExplanationEnds
    \/ ExplanationThrows

-----------------------------------------------------------------------------
(* The overlay of processImage in TranslationTool: the forEach loop that     *)
(* lays the translated text of every OCR region out on the canvas, with its  *)
(* helpers checkOverlap and adjustPosition.                                  *)
(*                                                                           *)
(* Lengths are integers counting millionths of a pixel, which keeps the      *)
(* factors 0.5, 0.9 and 1.3 of the source exact on the inputs below; a       *)
(* division by 0.9 is rounded down to the unit.                              *)

Px(n) == n * 1000000

MathMax(a, b) == IF a >= b THEN a ELSE b

MathMin(a, b) == IF a <= b THEN a ELSE b

Abs(a) == IF a < 0 THEN 0 - a ELSE a

RECURSIVE GCD(_, _)
GCD(a, b) == IF b = 0 THEN a ELSE GCD(b, a % b)

\* x * 0.9
Times09(x) == (x \div 10) * 9

\* x / 0.9
Over09(x) == (x * 10) \div 9

\* x * 0.5
Half(x) == x \div 2

\* x * 1.3
Times13(x) == (x \div 10) * 13

\* x * 1.2
Times12(x) == (x \div 10) * 12

\* x * (p / q), for the scale newFontSize / fontSize
Scaled(x, p, q) ==
    LET g == GCD(p, q)
        pp == p \div g
        qq == q \div g
    IN  (x \div qq) * pp + ((x % qq) * pp) \div qq

maxAttempts == 20

minFontSize == Px(12)

maxFontSize == Px(48)

\* ctx.measureText(line).width for a line of n characters in the font of the
\* given size.  The advance of a character is half the font size; a canvas
\* that positions glyphs on whole pixels ("hinted") rounds it to the pixel, one
\* that positions them on fractions ("scaled") does not.
CharWidth(m, fontSize) ==
    IF m = "hinted"
    THEN Px((Half(fontSize) + Px(1) \div 2) \div Px(1))
    ELSE Half(fontSize)

measureText(m, fontSize, n) == n * CharWidth(m, fontSize)

\* wrapText: the lengths of the lines that wrapping a line of n characters
\* within maxWidth gives, `cur` being the length of currentLine
RECURSIVE WrapFrom(_, _, _, _, _)
WrapFrom(m, fontSize, n, cur, maxWidth) ==
    IF n = 0
    THEN IF cur > 0 THEN <<cur>> ELSE <<>>
    ELSE IF measureText(m, fontSize, cur + 1) > maxWidth /\ cur > 0
         THEN <<cur>> \o WrapFrom(m, fontSize, n - 1, 1, maxWidth)
         ELSE WrapFrom(m, fontSize, n - 1, cur + 1, maxWidth)

wrapText(m, fontSize, n, maxWidth) == WrapFrom(m, fontSize, n, 0, maxWidth)

\* the wrapped lines of all lines of a text, which is the sequence of the
\* lengths of the lines that split('\n') gives
RECURSIVE WrapAll(_, _, _, _)
WrapAll(m, fontSize, lines, maxWidth) ==
    IF lines = <<>> THEN <<>>
    ELSE wrapText(m, fontSize, Head(lines), maxWidth)
             \o WrapAll(m, fontSize, Tail(lines), maxWidth)

\* Math.max(...lengths), as far as the comparisons that use it can tell
RECURSIVE Longest(_)
Longest(ls) == IF ls = <<>> THEN 0 ELSE MathMax(Head(ls), Longest(Tail(ls)))

checkOverlap(rect1, rect2) ==
    ~(\/ rect1.x + rect1.width < rect2.x
      \/ rect2.x + rect2.width < rect1.x
      \/ rect1.y + rect1.height < rect2.y
      \/ rect2.y + rect2.height < rect1.y)

\* the rectangle of a box that is centred on (cx, cy)
RectOf(b) ==
    [x |-> b.cx - b.width \div 2, y |-> b.cy - b.height \div 2,
     width |-> b.width, height |-> b.height]

hasOverlap(occ, b) == \E k \in 1..Len(occ) : checkOverlap(RectOf(b), occ[k])

\* the eight directions of adjustPosition, in the order it tries them
directions ==
    <<[dx |-> 0, dy |-> -1], [dx |-> 0, dy |-> 1], [dx |-> -1, dy |-> 0], [dx |-> 1, dy |-> 0],
      [dx |-> -1, dy |-> -1], [dx |-> 1, dy |-> -1], [dx |-> -1, dy |-> 1], [dx |-> 1, dy |-> 1]>>

\* the test position of direction d at the given offset
testPos(orig, adjusted, d, offset) ==
    [adjusted EXCEPT !.cx = orig.cx + directions[d].dx * offset,
                     !.cy = orig.cy + directions[d].dy * offset]

\* the first direction whose test position is free of the occupied
\* rectangles, or 0
FirstFree(occ, orig, adjusted, offset) ==
    LET free == {d \in 1..Len(directions) :
                     ~hasOverlap(occ, testPos(orig, adjusted, d, offset))}
    IN  IF free = {} THEN 0 ELSE CHOOSE d \in free : \A e \in free : d <= e

\* a shrinking phase of one attempt more
ShrinksOnceMore(attempts, fontSize) == attempts < 6 /\ fontSize > Times12(minFontSize)

\* the test that sends an attempt to the shrinking of the font
ShrinkAllowed(attempts, fontSize) == attempts < 5 /\ fontSize > Times12(minFontSize)

\* the offset of the test positions of an attempt
Offset(attempts) == Px(10) * (attempts - 4)

\* the while loop of adjustPosition from the top of an iteration.  Beside the
\* fields of the source, the box keeps a record of the call: `exhausted`, that
\* the loop ran out of attempts and the original was returned; `shrinks`, the
\* shrink steps taken; `attempts` and `dir`, the attempt and the direction of
\* the test position that was accepted (dir 0: none was)
RECURSIVE AdjustFrom(_, _, _, _)
AdjustFrom(occ, orig, adjusted, attempts) ==
    IF attempts >= maxAttempts
    THEN [orig EXCEPT !.exhausted = TRUE, !.shrinks = adjusted.shrinks, !.attempts = attempts]
    ELSE IF ~hasOverlap(occ, adjusted) THEN [adjusted EXCEPT !.attempts = attempts]
    ELSE IF ShrinkAllowed(attempts, adjusted.fontSize)
    THEN LET newFontSize == MathMax(minFontSize, Times09(adjusted.fontSize))
         IN  AdjustFrom(occ, orig,
                        [adjusted EXCEPT
                            !.fontSize = newFontSize,
                            !.width = Scaled(adjusted.width, newFontSize, adjusted.fontSize),
                            !.height = Scaled(adjusted.height, newFontSize, adjusted.fontSize),
                            !.shrinks = adjusted.shrinks + 1],
                        attempts + 1)
    ELSE LET offset == Offset(attempts)
             d == FirstFree(occ, orig, adjusted, offset)
         IN  IF d # 0
             THEN [testPos(orig, adjusted, d, offset) EXCEPT !.attempts = attempts, !.dir = d]
             ELSE AdjustFrom(occ, orig, adjusted, attempts + 1)

adjustPosition(occ, cx, cy, width, height, fontSize) ==
    LET orig == [cx |-> cx, cy |-> cy, fontSize |-> fontSize, width |-> width,
                 height |-> height, exhausted |-> FALSE, shrinks |-> 0, attempts |-> 0,
                 dir |-> 0]
    IN  AdjustFrom(occ, orig, orig, 0)

\* an OCR region without rotate_rect
NoRect == <<>>

\* the two guards of the loop body that return before anything is drawn:
\* no rotate_rect or not five numbers; a zero among cx, cy, width and height,
\* or a negative width or height
Skips(ocr) ==
    IF ocr.rotate_rect = NoRect \/ Len(ocr.rotate_rect) # 5 THEN TRUE
    ELSE LET cx == ocr.rotate_rect[1]
             cy == ocr.rotate_rect[2]
             width == ocr.rotate_rect[3]
             height == ocr.rotate_rect[4]
         IN  cx = 0 \/ cy = 0 \/ width = 0 \/ height = 0 \/ width <= 0 \/ height <= 0

\* the body of the try block up to the drawing: the box the text of a region
\* is drawn in and committed with
Layout(m, occ, ocr, lines) ==
    LET cx == ocr.rotate_rect[1]
        cy == ocr.rotate_rect[2]
        width == ocr.rotate_rect[3]
        height == ocr.rotate_rect[4]
        angle == ocr.rotate_rect[5]
        baseFontSize == Half(MathMin(width, height))
        fontSize == MathMax(minFontSize, MathMin(baseFontSize \div Len(lines), maxFontSize))
        maxWidth == Times09(width)
        maxHeight == Times09(height)
        allWrappedLines == WrapAll(m, fontSize, lines, maxWidth)
        lineHeight == Times13(fontSize)
        totalHeight == Len(allWrappedLines) * lineHeight
        maxTextWidth == measureText(m, fontSize, Longest(allWrappedLines))
        expand == totalHeight > maxHeight \/ maxTextWidth > maxWidth
        finalWidth == IF expand THEN MathMax(width, Over09(maxTextWidth)) ELSE width
        finalHeight == IF expand THEN MathMax(height, Over09(totalHeight)) ELSE height
        unadjusted == [cx |-> cx, cy |-> cy, fontSize |-> fontSize, width |-> finalWidth,
                       height |-> finalHeight, exhausted |-> FALSE, shrinks |-> 0,
                       attempts |-> 0, dir |-> 0]
    IN  IF Abs(angle) < 5
        THEN LET adjusted == adjustPosition(occ, cx, cy, finalWidth, finalHeight, fontSize)
                 newAllWrappedLines ==
                     WrapAll(m, adjusted.fontSize, lines, Times09(adjusted.width))
                 newTotalHeight == Len(newAllWrappedLines) * Times13(adjusted.fontSize)
             IN  IF adjusted.fontSize # fontSize /\ newTotalHeight > Times09(adjusted.height)
                 THEN [adjusted EXCEPT !.height = Over09(newTotalHeight)]
                 ELSE adjusted
        ELSE unadjusted

\* a loop that an exception ends
Uncaught(i) == Len(ocrTexts) + 1

\* the index of the region forEach goes on with after the catch block of
\* region i
Caught(i) == i + 1

\* the rotate_rect values of the regions: a caption, a heading above it whose
\* box reaches into the caption's, a small label, a block as large as the
\* page and a tilted heading; an array of four numbers, a zero width, a
\* negative height and a centre on the left edge
RotateRects ==
    {<<Px(100), Px(140), Px(100), Px(40), 0>>,
     <<Px(100), Px(100), Px(110), Px(44), 0>>,
     <<Px(100), Px(100), Px(60), Px(20), 0>>,
     <<Px(100), Px(100), Px(400), Px(400), 0>>,
     <<Px(100), Px(100), Px(110), Px(44), 10>>,
     NoRect,
     <<Px(100), Px(100), Px(110), Px(44)>>,
     <<Px(100), Px(100), 0, Px(40), 0>>,
     <<Px(100), Px(100), Px(110), 0 - Px(44), 0>>,
     <<0, Px(100), Px(110), Px(44), 0>>}

\* the translated texts, as the lengths of their lines: one line of nine
\* characters, two lines of two
OverlayTexts == {<<9>>, <<2, 2>>}

Metrics == {"scaled", "hinted"}

\* where a canvas call of the try block may throw: nowhere, before anything
\* is drawn (measureText), or after the background is filled (fillText)
Faults == {"none", "measure", "fill"}

\* the regions of an image, each with the lines of its translated text; the
\* text of a region the loop skips is never looked at, so one is enough
Regions ==
    {r \in [rotate_rect : RotateRects, lines : OverlayTexts] : Skips(r) => r.lines = <<2, 2>>}

LayoutInit ==
    /\ metrics \in Metrics
    /\ \E n \in 1..MaxRegions : ocrTexts \in [1..n -> Regions]
    /\ index = 1
    /\ occupiedRects = <<>>
    /\ drawn = <<>>
    /\ placed = <<>>

\* the loop body returns at one of its two guards
SkipRegion ==
    /\ index <= Len(ocrTexts)
    /\ Skips(ocrTexts[index])
    /\ placed' = Append(placed, [region |-> index, outcome |-> "skipped", exhausted |-> FALSE])
    /\ index' = index + 1
    /\ UNCHANGED <<metrics, ocrTexts, occupiedRects, drawn, notLayout>>

\* the try block runs to its end: the text is laid out, drawn and its
\* rectangle pushed to occupiedRects
DrawRegion ==
    /\ index <= Len(ocrTexts)
    /\ ~Skips(ocrTexts[index])
    /\ LET box == Layout(metrics, occupiedRects, ocrTexts[index], ocrTexts[index].lines) IN
       /\ drawn' = Append(drawn, [region |-> index, rect |-> RectOf(box)])
       /\ occupiedRects' = Append(occupiedRects, RectOf(box))
       /\ placed' = Append(placed, [region |-> index, outcome |-> "committed",
                                    exhausted |-> box.exhausted, box |-> box])
    /\ index' = index + 1
    /\ UNCHANGED <<metrics, ocrTexts, notLayout>>

\* a canvas call of the try block throws, and the catch block restores the
\* context
RegionThrows ==
    /\ index <= Len(ocrTexts)
    /\ ~Skips(ocrTexts[index])
    /\ \E fault \in Faults \ {"none"} :
         LET box == Layout(metrics, occupiedRects, ocrTexts[index], ocrTexts[index].lines) IN
         drawn' = IF fault = "fill"
                  THEN Append(drawn, [region |-> index, rect |-> RectOf(box)])
                  ELSE drawn
    /\ placed' = Append(placed, [region |-> index, outcome |-> "thrown", exhausted |-> FALSE])
    /\ index' = Caught(index)
    /\ UNCHANGED <<metrics, ocrTexts, occupiedRects, notLayout>>

LayoutNext ==
    \/ SkipRegion
    \/ DrawRegion
    \/ RegionThrows

-----------------------------------------------------------------------------
(* Specifications: each runs one component and leaves the others untouched *)

\* no generator has been called
FilterIdle ==
    /\ fn = "explainWord" /\ enableThinking = FALSE
    /\ stream = <<>> /\ chunks = <<>>
    /\ buffer = "" /\ inThinkTag = FALSE /\ out = <<>>
    /\ fpc = "idle"

\* no request is streaming
CancelIdle == signalAborted = FALSE /\ streamedText = "" /\ late = <<>>

\* no image is being overlaid
LayoutIdle ==
    /\ metrics = "scaled"
    /\ ocrTexts = <<>>
    /\ index = 1
    /\ occupiedRects = <<>>
    /\ drawn = <<>>
    /\ placed = <<>>

\* no detector has been constructed
VadIdle ==
    /\ cfg = ScenarioConfig
    /\ now = 0 /\ vpc = "none" /\ vad = NewVad
    /\ signal = <<>> /\ ticks = 0 /\ delivered = <<>>

\* no service has been constructed
ServiceIdle ==
    /\ provider = "siliconflow" /\ modelDownloaded = FALSE
    /\ service = NewService
    /\ calls = <<>> /\ starts = <<>> /\ streams = <<>> /\ detectors = <<>>
    /\ jobs = <<>> /\ transcripts = <<>> /\ errors = <<>>

\* nothing has been recorded
RecordingIdle ==
    /\ sourceLang = "en" /\ sourceText = ""
    /\ isRecording = FALSE /\ isTranslating = FALSE /\ error = "null"
    /\ realtimeTranscriptionRef = 0 /\ realtimeTranslationTimerRef = 0
    /\ sessions = <<>> /\ timers = {} /\ timerIds = 0 /\ segments = 0 /\ clock = 0
    /\ clicks = <<>> /\ received = <<>> /\ finals = <<>> /\ translations = <<>>

\* handleTranslate has not been called
TranslateIdle ==
    /\ TranslateInit
    /\ generalAIConfigured = TRUE /\ targetLang = "zh"

FilterSpecInit ==
    /\ FilterInit
    /\ CancelIdle /\ VadIdle /\ ServiceIdle /\ RecordingIdle /\ TranslateIdle /\ LayoutIdle

FilterSpec == FilterSpecInit /\ [][FilterNext]_vars

VadSpecInit ==
    /\ VadInit
    /\ FilterIdle /\ CancelIdle /\ ServiceIdle /\ RecordingIdle /\ TranslateIdle /\ LayoutIdle

VadSpec == VadSpecInit /\ [][VadNext]_vars

ServiceSpecInit ==
    /\ ServiceInit
    /\ FilterIdle /\ CancelIdle /\ VadIdle /\ RecordingIdle /\ TranslateIdle /\ LayoutIdle

ServiceSpec == ServiceSpecInit /\ [][ServiceNext]_vars

RecordingSpecInit ==
    /\ RecordingInit
    /\ FilterIdle /\ CancelIdle /\ VadIdle /\ ServiceIdle /\ TranslateIdle /\ LayoutIdle

RecordingSpec == RecordingSpecInit /\ [][RecordingNext]_vars

TranslateSpecInit ==
    /\ TranslateIdle
    /\ FilterIdle /\ CancelIdle /\ VadIdle /\ ServiceIdle /\ RecordingIdle /\ LayoutIdle

TranslateSpec == TranslateSpecInit /\ [][TranslateNext]_vars

PaneSpecInit ==
    /\ TranslateInit
    /\ generalAIConfigured \in BOOLEAN
    /\ targetLang \in Langs
    /\ FilterIdle /\ CancelIdle /\ VadIdle /\ ServiceIdle /\ RecordingIdle /\ LayoutIdle

PaneSpec == PaneSpecInit /\ [][PaneNext]_vars

CancelSpecInit ==
    /\ CancelInit
    /\ VadIdle /\ ServiceIdle /\ RecordingIdle /\ TranslateIdle /\ LayoutIdle

CancelSpec == CancelSpecInit /\ [][CancelNext]_vars

LayoutSpecInit ==
    /\ LayoutInit
    /\ FilterIdle /\ CancelIdle /\ VadIdle /\ ServiceIdle /\ RecordingIdle /\ TranslateIdle

LayoutSpec == LayoutSpecInit /\ [][LayoutNext]_vars

-----------------------------------------------------------------------------
(* Reference notions the filter claims are stated with *)

\* the set of characters of a string
Chars(s) == {Substring(s, i, i + 1) : i \in 0..(Len(s) - 1)}

\* The text split at its complete marker pairs, scanning left to right:
\* `inside` is the concatenated content of every <think>...</think> pair,
\* `outside` the text outside the pairs, `pairs` their number and `open`
\* whether the text ends inside an unterminated <think>.
RECURSIVE Marked(_)
Marked(s) ==
    LET i == IndexOf(s, THINK_OPEN) IN
    IF i = -1
    THEN [inside |-> "", outside |-> s, pairs |-> 0, open |-> FALSE]
    ELSE LET body == SubstringFrom(s, i + 7)
             j == IndexOf(body, THINK_CLOSE)
         IN  IF j = -1
             THEN [inside |-> "", outside |-> Substring(s, 0, i), pairs |-> 0, open |-> TRUE]
             ELSE LET r == Marked(SubstringFrom(body, j + 8))
                  IN  [inside |-> Substring(body, 0, j) \o r.inside,
                       outside |-> Substring(s, 0, i) \o r.outside,
                       pairs |-> 1 + r.pairs,
                       open |-> r.open]

\* characters that occur in marked content and nowhere else in the input,
\* the marker literals included
SecretChars(s) ==
    Chars(Marked(s).inside) \ (Chars(Marked(s).outside) \cup Chars(THINK_OPEN) \cup Chars(THINK_CLOSE))

BoxFree(s) == ~Contains(s, BEGIN_OF_BOX) /\ ~Contains(s, END_OF_BOX)

\* the sentinels among the yielded chunks, in order
Sentinels(ys) == SelectSeq(ys, LAMBDA y : y \in {THINKING_START, THINKING_END})

\* n times start-then-end
RECURSIVE StartEndPairs(_)
StartEndPairs(n) == IF n = 0 THEN <<>> ELSE <<THINKING_START, THINKING_END>> \o StartEndPairs(n - 1)

\* the longest proper prefix of <think> that the text ends with ("" if none)
TrailingTagPrefix(s) ==
    LET ks == {k \in 1..6 : k <= Len(s) /\ SubstringFrom(s, Len(s) - k) = Substring(THINK_OPEN, 0, k)}
    IN  IF ks = {} THEN "" ELSE Substring(THINK_OPEN, 0, CHOOSE k \in ks : \A m \in ks : k >= m)

EndsWith(s, t) == Len(t) <= Len(s) /\ SubstringFrom(s, Len(s) - Len(t)) = t

\* the text the loop has consumed: the chunks delivered, box tokens filtered
Consumed == Join([i \in 1..Len(chunks) |-> FilterBoxTokens(chunks[i])])

ScenarioYields == <<"Hel", "lo ", THINKING_START, THINKING_END, " world">>

-----------------------------------------------------------------------------
(* Claims about the filter *)

\* C1 (as claimed): with thinking display off, no character that occurs only
\* in the content between a <think> and its matching </think> appears in
\* any yielded chunk, whatever the chunking.
C1_MarkerSuppression ==
    ~enableThinking =>
        \A i \in 1..Len(out) : Chars(out[i]) \cap SecretChars(Input) = {}

\* C2 (as claimed): while the filter is Outside, a trailing part of the
\* consumed text that is a prefix of <think> is still in the buffer (held
\* back), not yielded.
C2_NoPartialTagLeak ==
    (fpc = "streaming" /\ ~inThinkTag) => EndsWith(buffer, TrailingTagPrefix(Consumed))

\* C3 (as claimed): with thinking display off, once the stream of an input
\* made of n complete marker pairs (none left open) has ended, explainWord
\* and quickQA have yielded exactly n start and n end sentinels, alternating
\* start then end.
C3_SentinelPairing ==
    (fpc = "done" /\ ~enableThinking /\ EmitsSentinels(fn) /\ ~Marked(Input).open)
        => Sentinels(out) = StartEndPairs(Marked(Input).pairs)

\* C4: with thinking display on and an input free of box-boundary tokens,
\* the chunks yielded so far followed by the pending buffer are exactly the
\* text consumed so far, and after the stream has ended the yielded chunks
\* concatenate to the input, whatever the chunking.
C4_RoundTrip ==
    (enableThinking /\ BoxFree(Input)) =>
        IF fpc = "done" THEN Join(out) = Input
        ELSE Join(out) \o buffer = Join(chunks)

\* C4 witness: with thinking display on, a stream whose closing marker is
\* split between two chunks has ended: the opening marker, the content with
\* the first part of the closing marker and the rest were yielded in turn.
C4_Witness ==
    /\ fpc = "done" /\ enableThinking
    /\ chunks = <<"<think>s</th", "ink>a">>
    /\ out = <<"<think>", "s</th", "ink>a">>

\* C5: fed the scenario's chunks with thinking display off, explainWord and
\* quickQA have yielded, after each chunk, exactly the scenario's yields up
\* to there: "Hel", then "lo ", then the start sentinel, then the end
\* sentinel and " world"; no yielded chunk contains "secret".
C5_Scenario ==
    (~enableThinking /\ EmitsSentinels(fn) /\ stream = ScenarioChunks)
    => /\ out = SubSeq(ScenarioYields, 1, CASE Len(chunks) = 0 -> 0
                                            [] Len(chunks) = 1 -> 1
                                            [] Len(chunks) = 2 -> 2
                                            [] Len(chunks) = 3 -> 3
                                            [] OTHER -> 5)
       /\ \A i \in 1..Len(out) : ~Contains(out[i], "secret")

\* C5 witness: explainWord has finished the scenario's stream.
C5_Witness ==
    /\ fpc = "done" /\ ~enableThinking /\ fn = "explainWord"
    /\ chunks = ScenarioChunks
    /\ out = ScenarioYields

\* the number of yielded chunks that are the sentinel y
Count(ys, y) == Len(SelectSeq(ys, LAMBDA x : x = y))

\* the filter is Inside and the step under way keeps it there: the stream
\* ends, or the next chunk brings no closing marker
StaysInside ==
    /\ inThinkTag
    /\ \/ StreamEnd
       \/ Chunk /\ ~Contains(buffer \o FilterBoxTokens(stream[Len(chunks) + 1]), THINK_CLOSE)

\* C28: with thinking display off, nothing is yielded while the filter is
\* Inside but the one sentinel at entry and the one at exit: a step that
\* keeps the filter Inside yields nothing, the end of the stream included,
\* where what an unterminated marker holds is dropped; in explainWord and
\* quickQA a start sentinel is the last chunk yielded exactly while the
\* filter is Inside, and is otherwise followed at once by an end sentinel,
\* which never comes without it.
C28_InsideYieldsNothing ==
    /\ []((~enableThinking /\ EmitsSentinels(fn)) =>
            /\ inThinkTag <=> (out # <<>> /\ out[Len(out)] = THINKING_START)
            /\ \A i \in 1..Len(out) :
                   /\ out[i] = THINKING_START => (i = Len(out) \/ out[i + 1] = THINKING_END)
                   /\ out[i] = THINKING_END => (i > 1 /\ out[i - 1] = THINKING_START))
    /\ [][(~enableThinking /\ StaysInside) => out' = out]_vars

\* C28 witness: with thinking display off, the stream of explainWord has
\* ended inside an unterminated marker whose content came in a chunk of its
\* own; only the start sentinel was yielded.
C28_Witness ==
    /\ fpc = "done" /\ ~enableThinking /\ fn = "explainWord"
    /\ chunks = <<"<think>", "a">>
    /\ inThinkTag
    /\ out = <<THINKING_START>>

\* C29 (as claimed): with thinking display off, once a stream that ends
\* inside an unterminated <think> has ended, no sentinel was yielded for
\* that marker: explainWord and quickQA have yielded as many start sentinels
\* as end sentinels, one of each for every complete marker pair.
C29_BalancedAtStreamEnd ==
    (fpc = "done" /\ ~enableThinking /\ EmitsSentinels(fn) /\ Marked(Input).open) =>
        /\ Count(out, THINKING_START) = Count(out, THINKING_END)
        /\ Count(out, THINKING_START) = Marked(Input).pairs

\* C30 (as claimed): whatever the chunking, the setting and the state of the
\* filter, the yielded chunks concatenate to a text without box-boundary
\* tokens.
C30_BoxTokensStripped == BoxFree(Join(out))

\* C23 (as claimed): once the abort signal of a streaming request is raised,
\* its generator yields no further chunk, neither from a chunk of the stream
\* nor from its remaining buffer, so the loop has nothing more to append.
C23_NoOutputAfterAbort == late = <<>>

-----------------------------------------------------------------------------
(* Reference notions the detector claims are stated with *)

\* the duration of the i-th segment passed to onVoiceEnd
Duration(i) == vad.voiceEnds[i].end - vad.voiceEnds[i].start

Durations == [i \in 1..Len(vad.voiceEnds) |-> Duration(i)]

\* is sample i of the signal above the threshold of the configuration?
Loud(i) == signal[i] > cfg.energyThreshold

\* the samples so far are silence followed by at least one sample of voice,
\* all of it above the threshold up to the latest tick
ContinuousVoice ==
    \E k \in 1..ticks :
        /\ \A i \in 1..(k - 1) : ~Loud(i)
        /\ \A i \in k..ticks : Loud(i)

\* the number of blobs passed to onVoiceEnd that contain the chunk
BlobsWith(c) ==
    Cardinality({i \in 1..Len(vad.voiceEnds) :
                    \E j \in 1..Len(vad.voiceEnds[i].blob) : vad.voiceEnds[i].blob[j] = c})

\* the signal is a 2500 ms voice run and the session is over: stop() was
\* called after the run's last sample, or the trailing silence has been heard
\* and has closed the last segment
VoiceRunOver ==
    \E lead \in 0..MaxLead :
        /\ signal = VoiceRun(lead)
        /\ \/ vpc = "stopped" /\ ticks >= lead + 25
           \/ vpc = "running" /\ ticks = Len(signal) /\ ~vad.isVoiceActive

-----------------------------------------------------------------------------
(* Claims about the detector *)

\* C6 (as claimed): every segment passed to onVoiceEnd lasted at least
\* minVoiceDuration, whichever way it was closed.
C6_MinDuration ==
    \A i \in 1..Len(vad.voiceEnds) : Duration(i) >= cfg.minVoiceDuration

\* C7 (as claimed): a stop() passes a segment to onVoiceEnd if and only if a
\* segment is open and has lasted at least minVoiceDuration.
C7_StopFlush ==
    [][VadStop =>
        ((Len(vad'.voiceEnds) = Len(vad.voiceEnds) + 1)
            <=> (vad.isVoiceActive /\ now - vad.voiceStartTime >= cfg.minVoiceDuration))]_vars

\* C8: a segment that is open once its duration has reached maxVoiceDuration
\* is closed by the duration check due at that very instant, so no open
\* segment and no segment passed to onVoiceEnd is as long as maxVoiceDuration
\* plus one check period; a segment closed by the check has reached
\* maxVoiceDuration.
C8_ForcedSplitBound ==
    /\ (vad.isVoiceActive /\ now - vad.voiceStartTime >= cfg.maxVoiceDuration)
           => vad.checkInterval = now
    /\ vad.isVoiceActive => now - vad.voiceStartTime < cfg.maxVoiceDuration + CheckPeriod
    /\ \A i \in 1..Len(vad.voiceEnds) :
           /\ Duration(i) < cfg.maxVoiceDuration + CheckPeriod
           /\ vad.voiceEnds[i].via = "split" => Duration(i) >= cfg.maxVoiceDuration

\* C8 witness: the check has split a segment at maxVoiceDuration while the
\* energy was still above the threshold.
C8_Witness ==
    /\ vpc = "running"
    /\ Len(vad.voiceEnds) = 1
    /\ vad.voiceEnds[1].via = "split"
    /\ vad.voiceEnds[1].end = now
    /\ Duration(1) = cfg.maxVoiceDuration
    /\ ticks >= 1 /\ Loud(ticks)

\* C9 (as claimed): while a continuous voice input is being split, every
\* chunk the recorder delivered between the first voice tick and the latest
\* close is in exactly one blob passed to onVoiceEnd, and the audio of each
\* blob after the first starts at the instant the segment before it closed.
C9_NoGapOnSplit ==
    (vpc = "running" /\ ContinuousVoice /\ Len(vad.voiceEnds) >= 1) =>
        /\ \A k \in 1..Len(delivered) :
               (/\ delivered[k].from >= vad.voiceStarts[1]
                /\ delivered[k].to <= vad.voiceEnds[Len(vad.voiceEnds)].end)
                   => BlobsWith(delivered[k]) = 1
        /\ \A i \in 2..Len(vad.voiceEnds) :
               vad.voiceEnds[i].blob[1].from = vad.voiceEnds[i - 1].end

\* C10 (as claimed): with maxVoiceDuration 1000 ms, a 2500 ms voice run
\* followed by silence or by stop() has produced exactly three onVoiceEnd
\* segments, of 1000, 1000 and 500 ms.
C10_ThreeSegments ==
    (cfg = ScenarioConfig /\ VoiceRunOver) => Durations = <<1000, 1000, 500>>

\* C11: under the default configuration, the detector fed the short
\* utterance <<5, 5, 40, 45, 50, 5, 5, 5, 5, 5, 5, 5, 5>> at a 100 ms tick
\* and not stopped has called onVoiceStart once, at the third sample; the
\* segment stays open through the twelfth sample and onVoiceEnd is called
\* once, at the thirteenth sample, when 800 ms have passed since the last
\* sample of voice; there is no other onVoiceStart or onVoiceEnd.
C11_ShortUtterance ==
    (cfg = DEFAULT_CONFIG /\ signal = ShortUtterance /\ vpc = "running") =>
        /\ ticks < 3 => (vad.voiceStarts = <<>> /\ vad.voiceEnds = <<>> /\ ~vad.isVoiceActive)
        /\ ticks >= 3 => vad.voiceStarts = <<3 * cfg.energyIntegrationTime>>
        /\ ticks \in 3..12 => (vad.isVoiceActive /\ vad.voiceEnds = <<>>)
        /\ ticks = 13 =>
               /\ ~vad.isVoiceActive
               /\ Len(vad.voiceEnds) = 1
               /\ vad.voiceEnds[1].via = "silence"
               /\ vad.voiceEnds[1].start = 3 * cfg.energyIntegrationTime
               /\ vad.voiceEnds[1].end = vad.lastVoiceTime + cfg.silenceDuration
               /\ vad.voiceEnds[1].end = 13 * cfg.energyIntegrationTime

\* C11 witness: the thirteenth sample has closed the one segment of the short
\* utterance.
C11_Witness ==
    /\ cfg = DEFAULT_CONFIG /\ signal = ShortUtterance /\ vpc = "running"
    /\ ticks = 13
    /\ Len(vad.voiceStarts) = 1 /\ Len(vad.voiceEnds) = 1
    /\ vad.voiceEnds[1].via = "silence"

\* C26 (as claimed): a tick that finds the detector silent opens a segment
\* if its energy sample is greater than or equal to energyThreshold, a sample
\* equal to the threshold included, and opens none if the sample is below it.
C26_ThresholdInclusive ==
    [][(Tick /\ ~vad.isVoiceActive) =>
        /\ signal[ticks + 1] >= cfg.energyThreshold =>
               (vad'.isVoiceActive /\ vad'.voiceStarts = Append(vad.voiceStarts, now))
        /\ signal[ticks + 1] < cfg.energyThreshold =>
               (~vad'.isVoiceActive /\ vad'.voiceStarts = vad.voiceStarts)]_vars

\* C27: a tick below the threshold that finds a segment open, with
\* silenceDuration or more since the last voice tick, passes the segment to
\* onVoiceEnd if it has lasted minVoiceDuration or more, and otherwise clears
\* its audio buffer and notifies nobody; either way the detector is silent
\* afterwards, and a later tick above the threshold opens a fresh segment,
\* starting then and with an empty buffer.
C27_NormalClose ==
    [][Tick =>
        /\ (/\ signal[ticks + 1] < cfg.energyThreshold
            /\ vad.isVoiceActive
            /\ now - vad.lastVoiceTime >= cfg.silenceDuration) =>
               /\ ~vad'.isVoiceActive
               /\ vad'.audioChunks = <<>>
               /\ vad'.voiceStarts = vad.voiceStarts
               /\ IF now - vad.voiceStartTime >= cfg.minVoiceDuration
                  THEN vad'.voiceEnds =
                           Append(vad.voiceEnds,
                                  [start |-> vad.voiceStartTime, end |-> now,
                                   blob |-> vad.audioChunks, via |-> "silence"])
                  ELSE vad'.voiceEnds = vad.voiceEnds
        /\ (signal[ticks + 1] > cfg.energyThreshold /\ ~vad.isVoiceActive) =>
               /\ vad'.isVoiceActive
               /\ vad'.voiceStartTime = now
               /\ vad'.audioChunks = <<>>
               /\ vad'.voiceStarts = Append(vad.voiceStarts, now)]_vars

\* C27 witness: the false start was abandoned without a notification, and the
\* segment opened after it has been closed by silence and passed on.
C27_Witness ==
    /\ cfg = QuickConfig /\ signal = FalseStart /\ vpc = "running"
    /\ ticks = 6
    /\ ~vad.isVoiceActive
    /\ Len(vad.voiceStarts) = 2
    /\ Len(vad.voiceEnds) = 1
    /\ vad.voiceEnds[1].via = "silence"
    /\ vad.voiceEnds[1].start = vad.voiceStarts[2]
    /\ Duration(1) >= cfg.minVoiceDuration

-----------------------------------------------------------------------------
(* Claims about the service *)

\* C12 (as claimed): at most one MediaStream with live tracks and at most one
\* running detector exist for the instance at any time, whenever start() is
\* called.
C12_SinglePipeline ==
    /\ Cardinality(Live(streams)) <= 1
    /\ Cardinality(Running(detectors)) <= 1

\* C13 (as claimed): when the latest call on the instance is a stop(), no
\* stream of the instance has a live track and none of its detectors runs.
C13_StopReleases ==
    (calls # <<>> /\ calls[Len(calls)] = "stop") =>
        (Live(streams) = {} /\ Running(detectors) = {})

C15_FailureIsolation ==
    [][JobFails =>
        /\ service'.isRunning = service.isRunning
        /\ service'.vad = service.vad /\ service'.mediaStream = service.mediaStream
        /\ streams' = streams
        /\ detectors' = detectors
        /\ Len(errors') = Len(errors) + 1
        /\ errors'[Len(errors')].kind = "transcribe"
        /\ transcripts' = transcripts]_vars

\* C15 witness: after a transcription failed, the still-running service
\* dispatched a later segment and its transcript reached onTranscript.
C15_Witness ==
    /\ service.isRunning
    /\ Running(detectors) # {}
    /\ \E e \in DOMAIN errors, t \in DOMAIN transcripts :
           /\ errors[e].kind = "transcribe"
           /\ transcripts[t].job > errors[e].dispatched

-----------------------------------------------------------------------------
(* Reference notions the recording claims are stated with *)

\* the texts joined with the separator between them
RECURSIVE JoinWith(_, _)
JoinWith(ts, sep) ==
    IF ts = <<>> THEN ""
    ELSE IF Len(ts) = 1 THEN ts[1]
    ELSE ts[1] \o sep \o JoinWith(Tail(ts), sep)

\* the handleTranslate calls made by the debounce timer
Debounced == {i \in DOMAIN translations : translations[i].by = "debounce"}

\* the latest press was of the stop button
StopRecordingRan == clicks # <<>> /\ clicks[Len(clicks)] = "stop"

-----------------------------------------------------------------------------
(* Claims about realtime recording *)

\* C16: once recording has been started, the accumulated source text is the
\* final transcripts received since the recording started, each once, in the order their transcriptions
\* completed, joined with a space if the source language is written with
\* spaces and with nothing for zh, ja and ko; no segment's transcript is
\* received twice.
C16_AppendInCompletionOrder ==
    /\ clicks # <<>> =>
           sourceText = JoinWith(received, Separator(SourceLangUsesSpaces(sourceLang)))
    /\ \A i, j \in DOMAIN finals : finals[i].segment = finals[j].segment => i = j

\* C16 witness: the second segment's transcription completed before the
\* first's, and the text reads in that order.
C16_Witness ==
    /\ Len(finals) = 2
    /\ finals[1].segment = 2 /\ finals[2].segment = 1
    /\ sourceLang = "en"
    /\ sourceText = "b a"

\* C17: at most one debounce timer is pending, and it is due 800 ms after
\* the latest final transcript; a debounce timer's call of handleTranslate
\* comes 800 ms or more after the latest final transcript, with none in
\* between, and no two such calls follow the same transcript.
C17_PureDebounce ==
    /\ Cardinality(timers) <= 1
    /\ \A t \in timers :
           finals # <<>> /\ t.due = finals[Len(finals)].at + DebouncePeriod
    /\ \A i \in Debounced :
           /\ translations[i].finalsThen >= 1
           /\ translations[i].at >= finals[translations[i].finalsThen].at + DebouncePeriod
           /\ \A j \in Debounced :
                  translations[j].finalsThen = translations[i].finalsThen => i = j

\* C17 witness: two final transcripts came less than 800 ms apart and the
\* timer has called handleTranslate once, 800 ms after the second.
C17_Witness ==
    /\ Len(finals) = 2
    /\ finals[2].at - finals[1].at > 0
    /\ finals[2].at - finals[1].at < DebouncePeriod
    /\ Cardinality(Debounced) = 1
    /\ \A i \in Debounced :
           /\ translations[i].finalsThen = 2
           /\ translations[i].at = finals[2].at + DebouncePeriod

\* C18 (as claimed): the text the debounce timer passes to handleTranslate is
\* the accumulated source text of that moment.
C18_TranslatesAccumulated ==
    \A i \in Debounced : translations[i].text = translations[i].accumulated

\* C19 (as claimed): once stopRecording has run, and until recording is
\* started again, no debounce timer is pending.
C19_StopCancelsDebounce ==
    StopRecordingRan => timers = {}

-----------------------------------------------------------------------------
(* Claims about handleTranslate *)

\* C20: under any interleaving of handleTranslate calls and their completions,
\* a request writes targetText or error, on success or on failure, only
\* while it is the active request: no later handleTranslate call has been
\* made, one answered from the cache or returned early for an empty text
\* included, and its signal has not been raised
C20_StaleCompletionWritesNothing ==
    \A w \in DOMAIN writes :
        /\ writes[w].call = writes[w].latestThen
        /\ ~writes[w].aborted

\* C21 (as claimed): a request that was aborted, superseded by a newer one
\* or cancelled, shows no error and clears no target text: the rejection its
\* abort raises inside translateText reaches the handler in a form it takes
\* for a cancellation, so no write is made on its behalf.
C21_CancelledIsSilent ==
    \A w \in DOMAIN writes : writes[w].cause # "AbortError"

-----------------------------------------------------------------------------
(* Claims about the text pane *)

\* C22 (as claimed): once every request issued has completed, cancelled or
\* not, the loading flag is false: superseding a request or cancelling it
\* with the mode toggle never leaves isTranslating stuck at true.
C22_LoadingSettles ==
    (\A r \in DOMAIN requests : requests[r].pc = "done") => ~isTranslating

-----------------------------------------------------------------------------
(* Reference notions the overlay claims are stated with *)

\* the forEach loop has run on every region
PassDone == index > Len(ocrTexts)

\* every region that has an angle has one of less than 5 degrees
AllLevel ==
    \A i \in DOMAIN ocrTexts :
        ~Skips(ocrTexts[i]) => Abs(ocrTexts[i].rotate_rect[5]) < 5

\* what the loop body did for the regions it committed, in the order of
\* occupiedRects
Commits == SelectSeq(placed, LAMBDA p : p.outcome = "committed")

-----------------------------------------------------------------------------
(* Claims about the overlay *)

\* C24 (as claimed): after a pass over regions that all have |angle| < 5, two
\* rectangles of occupiedRects overlap under checkOverlap only if
\* adjustPosition ran out of its 20 attempts for the later one.
C24_NoOverlap ==
    (PassDone /\ AllLevel) =>
        \A j \in 1..Len(occupiedRects) : \A i \in 1..(j - 1) :
            checkOverlap(occupiedRects[i], occupiedRects[j]) => Commits[j].exhausted

\* a region as the claim describes the ones to skip: rotate_rect missing or
\* not of length 5, or a width or height that is not positive
Malformed(ocr) ==
    IF ocr.rotate_rect = NoRect \/ Len(ocr.rotate_rect) # 5 THEN TRUE
    ELSE ocr.rotate_rect[3] <= 0 \/ ocr.rotate_rect[4] <= 0

\* the loop body has drawn something for region i
Drawn(i) == \E k \in DOMAIN drawn : drawn[k].region = i

\* C25: a region whose rotate_rect is missing, not of length 5 or of a
\* non-positive width or height is skipped with nothing drawn and nothing
\* pushed to occupiedRects; and the pass runs its loop body on every region,
\* committing each one it neither skips nor fails on, whatever was skipped
\* or thrown before it.
C25_SkipAndGoOn ==
    /\ \A k \in DOMAIN placed :
           Malformed(ocrTexts[placed[k].region]) =>
               placed[k].outcome = "skipped" /\ ~Drawn(placed[k].region)
    /\ Len(occupiedRects) = Len(Commits)
    /\ PassDone =>
           /\ Len(placed) = Len(ocrTexts)
           /\ \A i \in DOMAIN ocrTexts :
                  /\ placed[i].region = i
                  /\ ~Skips(ocrTexts[i]) => placed[i].outcome \in {"committed", "thrown"}
                  /\ placed[i].outcome = "committed" => Drawn(i)

\* a pass whose first region is skipped for its missing rotate_rect, whose
\* second threw after its background was filled and whose third is committed
C25_Witness ==
    /\ PassDone
    /\ Len(ocrTexts) = 3
    /\ ocrTexts[1].rotate_rect = NoRect
    /\ placed[1].outcome = "skipped"
    /\ placed[2].outcome = "thrown"
    /\ Drawn(2)
    /\ placed[3].outcome = "committed"
    /\ Len(occupiedRects) = 1

\* clamp(v, lo, hi)
Clamp(v, lo, hi) == IF v < lo THEN lo ELSE IF v > hi THEN hi ELSE v

\* min(width, height) * 0.5 / lineCount of a region, clamped to 12 and 48 px
BaseFontSize(ocr) ==
    LET side == IF ocr.rotate_rect[3] <= ocr.rotate_rect[4]
                THEN ocr.rotate_rect[3] ELSE ocr.rotate_rect[4]
    IN  Clamp((side \div 2) \div Len(ocr.lines), Px(12), Px(48))

\* f after n steps of x0.9
RECURSIVE Shrunk(_, _)
Shrunk(f, n) == IF n = 0 THEN f ELSE Shrunk((f \div 10) * 9, n - 1)

\* C31: the font size a region is laid out with starts from
\* clamp(min(width, height) * 0.5 / lineCount, 12, 48); adjustPosition takes at
\* most 5 shrink steps of x0.9 each, and the font size it returns is never
\* below 12 px and never above that base.
C31_FontSizeBounds ==
    \A k \in DOMAIN placed :
        placed[k].outcome = "committed" =>
            LET box == placed[k].box
                base == BaseFontSize(ocrTexts[placed[k].region])
            IN  /\ box.shrinks <= 5
                /\ box.fontSize >= Px(12)
                /\ box.fontSize <= base
                /\ box.fontSize = IF box.exhausted THEN base ELSE Shrunk(base, box.shrinks)

\* a label over which a heading was shrunk five times and then moved
C31_Witness ==
    \E k \in DOMAIN placed :
        /\ placed[k].outcome = "committed"
        /\ placed[k].box.shrinks = 5
        /\ ~placed[k].box.exhausted
        /\ placed[k].box.fontSize < BaseFontSize(ocrTexts[placed[k].region])

\* C32 (as claimed): a box that adjustPosition moved was moved by a positive
\* radius 10 * (attempt - 4), whatever its font size; and after 20 attempts
\* the box returned is the original one.
C32_PositiveRadii ==
    \A k \in DOMAIN placed :
        placed[k].outcome = "committed" =>
            LET box == placed[k].box
                ocr == ocrTexts[placed[k].region]
            IN  /\ box.dir # 0 => Offset(box.attempts) > 0
                /\ box.exhausted =>
                       /\ box.attempts = maxAttempts
                       /\ box.cx = ocr.rotate_rect[1]
                       /\ box.cy = ocr.rotate_rect[2]
                       /\ box.fontSize = BaseFontSize(ocr)

-----------------------------------------------------------------------------
(* Further claims about the detector *)

\* C35 (as claimed): once stop() has returned, none of the detector's timers
\* is pending, neither the two intervals nor the timeout endVoice arms for
\* the restart of the recorder, and the recorder does not record.
C35_NoDanglingTimers ==
    vpc = "stopped" =>
        /\ vad.monitoringInterval = -1
        /\ vad.checkInterval = -1
        /\ vad.restartTimer = -1
        /\ vad.recorder # "recording"

\* C39: onVoiceStart is called only when no segment is open and opens one;
\* onVoiceEnd is called only for the open segment, once, and closes it; a
\* segment is open only after an onVoiceStart; and every blob passed to
\* onVoiceEnd holds at least one chunk.
C39_OneOpenSegment ==
    /\ [](/\ \A i \in 1..Len(vad.voiceEnds) : Len(vad.voiceEnds[i].blob) >= 1
          /\ Len(vad.voiceEnds) <= Len(vad.voiceStarts)
          /\ vad.isVoiceActive => Len(vad.voiceStarts) >= 1)
    /\ [][/\ vad.voiceStarts' # vad.voiceStarts =>
                 /\ ~vad.isVoiceActive /\ vad'.isVoiceActive
                 /\ Len(vad'.voiceStarts) = Len(vad.voiceStarts) + 1
                 /\ vad'.voiceEnds = vad.voiceEnds
          /\ vad.voiceEnds' # vad.voiceEnds =>
                 /\ vad.isVoiceActive /\ ~vad'.isVoiceActive
                 /\ Len(vad'.voiceEnds) = Len(vad.voiceEnds) + 1
                 /\ vad'.voiceEnds[Len(vad'.voiceEnds)].start
                        = vad.voiceStarts[Len(vad.voiceStarts)]
          /\ (~vad.isVoiceActive /\ vad'.isVoiceActive) =>
                 vad.voiceStarts' # vad.voiceStarts]_vars

\* two segments were opened and both were passed on
C39_Witness ==
    /\ Len(vad.voiceStarts) = 2
    /\ Len(vad.voiceEnds) = 2
    /\ ~vad.isVoiceActive

-----------------------------------------------------------------------------
(* Further claims about the service *)

\* C40: getPendingCount() is the number of transcribeAudioSegment calls that
\* have begun and not settled; it is never negative, and it is 0 when every
\* call has settled.
C40_PendingCount ==
    /\ service.pendingTranscriptions
           = Cardinality({j \in DOMAIN jobs : jobs[j].pc # "settled"})
    /\ service.pendingTranscriptions >= 0

\* C40 witness: two calls overlapped and have both settled, one of them
\* through the catch block, and the counter is back at 0.
C40_Witness ==
    /\ Len(jobs) = 2
    /\ \A j \in DOMAIN jobs : jobs[j].pc = "settled"
    /\ jobs[1].outcome = "transcript" /\ jobs[2].outcome = "error"
    /\ \E t \in DOMAIN transcripts, e \in DOMAIN errors :
           /\ transcripts[t].job = 1
           /\ errors[e].kind = "transcribe" /\ errors[e].dispatched = 2
    /\ service.pendingTranscriptions = 0

\* a step in which detector d closes a segment that holds audio, by silence,
\* by the forced split or by stop()
ClosesWithAudio(d) ==
    /\ detectors[d].isVoiceActive /\ detectors[d].hasAudio
    /\ ~detectors'[d].isVoiceActive

\* C33: a segment that closes with audio is handed to transcribeAudioSegment
\* in the same step, however many earlier calls are still pending, so the
\* calls are made in the order in which the segments close; nothing else
\* makes a call; the calls keep their order; and they reach the provider in
\* that order.
C33_NeverBlocked ==
    [][/\ \A d \in DOMAIN detectors :
              ClosesWithAudio(d) =>
                  jobs' = Append(jobs, [pc |-> "convert", detector |-> d,
                                        outcome |-> "pending"])
       /\ Len(jobs') >= Len(jobs)
       /\ Len(jobs') > Len(jobs) => \E d \in DOMAIN detectors : ClosesWithAudio(d)
       /\ \A j \in DOMAIN jobs :
              /\ jobs'[j].detector = jobs[j].detector
              /\ (jobs[j].pc = "convert" /\ jobs'[j].pc # "convert") =>
                     \A k \in 1..(j - 1) : jobs[k].pc # "convert"]_vars

\* C33 witness: a second segment was closed and dispatched while the first
\* one's transcription was pending, and both are with the provider.
C33_Witness ==
    /\ Len(jobs) = 2
    /\ jobs[1].pc = "transcribe" /\ jobs[2].pc = "transcribe"
    /\ service.pendingTranscriptions = 2
    /\ service.isRunning

\* a step in which a start() call fails: getUserMedia rejected, or
\* vad.start threw
StartFails(i) ==
    /\ starts[i].pc \in {"getUserMedia", "vadStartThrew"}
    /\ starts'[i].pc \notin {"getUserMedia", "vadStart", "vadStartThrew"}

\* C34: a start() that fails reports the error to onError, once, and
\* rejects; it leaves isRunning as it was, so an instance none of whose
\* start() calls has resolved is not running; and a start() on an instance
\* that is not running goes on to acquire the microphone.
C34_FailedStart ==
    /\ []((\A i \in DOMAIN starts : starts[i].pc # "resolved") => ~service.isRunning)
    /\ [][/\ \A i \in DOMAIN starts :
                  StartFails(i) =>
                      /\ starts'[i].pc = "rejected"
                      /\ Len(errors') = Len(errors) + 1
                      /\ errors'[Len(errors')].kind
                             = (IF starts[i].pc = "getUserMedia" THEN "getUserMedia"
                                                                ELSE "vadStart")
                      /\ service'.isRunning = service.isRunning
          /\ (ServiceStart /\ ~service.isRunning) =>
                 starts'[Len(starts')].pc = "getUserMedia"]_vars

\* C34 witness: the first start() was rejected and reported; a second
\* start(), called after that, was attempted afresh and resolved.
C34_Witness ==
    /\ Len(starts) = 2
    /\ starts[1].pc = "rejected"
    /\ errors # <<>> /\ errors[1].kind \in {"getUserMedia", "vadStart"}
    /\ starts[2].after >= 1
    /\ starts[2].pc = "resolved"
    /\ service.isRunning

\* C38 (as claimed): after a start() that obtained the microphone was
\* rejected, the tracks of its stream have been stopped and the instance
\* holds neither that stream nor that detector.
C38_FailedStartReleases ==
    \A i \in DOMAIN starts :
        (starts[i].pc = "rejected" /\ starts[i].stream # 0) =>
            /\ starts[i].stream \notin Live(streams)
            /\ service.mediaStream # starts[i].stream
            /\ service.vad # starts[i].detector

-----------------------------------------------------------------------------
(* Further claims about the filter *)

\* the text with every complete <think>...</think> region removed; a <think>
\* that is never closed stays
RECURSIVE WithoutThinkRegions(_)
WithoutThinkRegions(s) ==
    LET i == IndexOf(s, THINK_OPEN) IN
    IF i = -1
    THEN s
    ELSE LET body == SubstringFrom(s, i + 7)
             j == IndexOf(body, THINK_CLOSE)
         IN  IF j = -1
             THEN s
             ELSE Substring(s, 0, i) \o WithoutThinkRegions(SubstringFrom(body, j + 8))

\* the yielded chunks that are no sentinel, concatenated
PlainText(ys) == Join(SelectSeq(ys, LAMBDA y : y \notin {THINKING_START, THINKING_END}))

\* C36 (as claimed): with thinking display off, once the stream of an input
\* free of box-boundary tokens has ended, the chunks explainWord and quickQA
\* have yielded, the sentinels left out, concatenate to the input with every
\* complete <think>...</think> region removed, whatever the chunking.
C36_ChunkingIndependence ==
    (fpc = "done" /\ ~enableThinking /\ EmitsSentinels(fn) /\ BoxFree(Input))
        => PlainText(out) = WithoutThinkRegions(Input)

-----------------------------------------------------------------------------
(* Further claims about the text pane *)

\* request r goes on in the step: its await settles, or its stream yields a
\* chunk that is shown
GoesOn(r) ==
    \/ requests'[r].pc # requests[r].pc
    \/ requests'[r].streamed # requests[r].streamed

\* C37 (as claimed): a request that was started before the latest
\* handleInputMethodChange writes neither targetText nor error nor a loading
\* flag when it goes on.
C37_NoWriteAfterMethodChange ==
    [][\A r \in 1..staleRequests :
           GoesOn(r) => UNCHANGED <<targetText, error, isTranslating, isThinking>>]_vars

=============================================================================
